---- MODULE Spec2Model ----
(***************************************************************************)
(* A model of MiniDB's relational engine: the Table/Column layer           *)
(* (src/rdbms/table.py), the Database orchestrator (src/rdbms/database.py),*)
(* the storage backend (src/rdbms/storage.py) and the JOIN part of the     *)
(* query parser (src/rdbms/query_parser.py).                               *)
(*                                                                         *)
(* Python values are tagged records [t, n, s]: t is the Python type, n the *)
(* number of an int or a bool, s the text of a str.  Row positions are     *)
(* 1-based here (Python's are 0-based); a dict is a function whose DOMAIN  *)
(* is the dict's key set; a dict whose order matters (a WHERE clause) is a *)
(* sequence of <<key, value>> pairs.                                       *)
(***************************************************************************)
EXTENDS Integers, Sequences, FiniteSets, TLC

VARIABLES
    table,      \* the Table object of the table-level specification
    last,       \* outcome of the last Table call: what it returned or raised
    database,   \* the Database object: its live tables and its storage
    answer,     \* the last statement and what execute_query returned for it
    io_faulted, \* whether a file operation has failed since construction
    select_text, \* the identifiers of a SELECT ... JOIN text handed to the parser
    parsed,     \* what the parser made of select_text
    backend,    \* the storage backend in use: "json", "pickle" or "memory"
    memory,     \* the MemoryStorage object
    heap,       \* the dicts and lists the caller and the MemoryStorage hold
    handles,    \* the table_data objects the caller holds, by where they came from
    backup_dir, \* the directory backups are written to
    snapshot,   \* what the storage held when the last backup was taken
    last_saved, \* per table name, the content last saved and not deleted since
    returned,   \* the last storage call and what it returned
    threads,    \* per thread: the call it makes, its position in it, its locals
    lock        \* the thread holding the StorageEngine's lock, 0 when free

tvars == <<table, last>>
dbvars == <<database, answer, io_faulted>>
pvars == <<select_text, parsed>>
svars == <<backend, memory, heap, handles, backup_dir, snapshot, last_saved, returned>>
cvars == <<threads, lock>>
vars == <<table, last, database, answer, io_faulted, select_text, parsed,
          backend, memory, heap, handles, backup_dir, snapshot, last_saved, returned,
          threads, lock>>

----------------------------------------------------------------------------
(* Bounds *)

MaxVal == 2     \* integer literals 1..MaxVal
MaxLen == 2     \* an identifier of a parsed text has at most MaxLen letters
MaxRows == 2    \* a table holds at most MaxRows rows

----------------------------------------------------------------------------
(* Python values *)

NullV == [t |-> "null", n |-> 0, s |-> ""]
IntV(i) == [t |-> "int", n |-> i, s |-> ""]
StrV(x) == [t |-> "str", n |-> 0, s |-> x]
BoolV(b) == [t |-> "bool", n |-> IF b THEN 1 ELSE 0, s |-> ""]

\* Python's ==: None equals only None, bool is an int, str equals only str
PyEq(a, b) ==
    CASE a.t = "null" \/ b.t = "null" -> a.t = b.t
      [] a.t = "str" \/ b.t = "str" -> a.t = b.t /\ a.s = b.s
      [] OTHER -> a.n = b.n

\* int(x) of a str: the decimal strings of the bounded integers parse
IntLiterals == {<<ToString(i), i>> : i \in 0..(MaxVal + 1)}

IsIntText(x) == \E p \in IntLiterals : p[1] = x

IntOfText(x) == (CHOOSE p \in IntLiterals : p[1] = x)[2]

\* str(x)
PyStr(v) ==
    CASE v.t = "str" -> v.s
      [] v.t = "int" -> ToString(v.n)
      [] v.t = "bool" -> IF v.n = 1 THEN "True" ELSE "False"
      [] OTHER -> "None"

\* str(x).lower() for the values above
PyStrLower(v) ==
    CASE v.t = "bool" -> IF v.n = 1 THEN "true" ELSE "false"
      [] OTHER -> PyStr(v)

----------------------------------------------------------------------------
(* Column *)

supported_types == {"INT", "TEXT", "VARCHAR", "BOOLEAN"}

\* A column that is as nullable as requested, primary key or not
Column_AsRequested(name, data_type, primary_key, unique, nullable) ==
    [name |-> name, data_type |-> data_type, primary_key |-> primary_key,
     unique |-> unique, nullable |-> nullable]

\* Column.__init__: a primary-key column is never nullable
Column(name, data_type, primary_key, unique, nullable) ==
    [name |-> name, data_type |-> data_type, primary_key |-> primary_key,
     unique |-> unique, nullable |-> (~primary_key) /\ nullable]

Raise(kind) == [ok |-> FALSE, val |-> NullV, err |-> kind]
Return(v) == [ok |-> TRUE, val |-> v, err |-> ""]

\* Column.validate_value: the coerced value, or the error it raises
validate_value(column, value) ==
    IF value.t = "null"
    THEN IF ~column.nullable THEN Raise("null") ELSE Return(NullV)
    ELSE CASE column.data_type = "INT" ->
                IF value.t = "str"
                THEN IF IsIntText(value.s)
                     THEN Return(IntV(IntOfText(value.s)))
                     ELSE Raise("type")
                ELSE Return(IntV(value.n))
           [] column.data_type \in {"TEXT", "VARCHAR"} ->
                Return(StrV(PyStr(value)))
           [] column.data_type = "BOOLEAN" ->
                IF value.t = "bool" THEN Return(value)
                ELSE IF PyStrLower(value) \in {"false", "0", "no"}
                     THEN Return(BoolV(FALSE))
                ELSE IF PyStrLower(value) \in {"true", "1", "yes"}
                     THEN Return(BoolV(TRUE))
                ELSE Raise("type")
           [] OTHER -> Return(value)

----------------------------------------------------------------------------
(* Table *)

Range(f) == {f[i] : i \in DOMAIN f}

\* dict.get(key): None when the key is missing
Get(row, key) == IF key \in DOMAIN row THEN row[key] ELSE NullV

EmptyDict == [k \in {} |-> <<>>]

\* Table.__init__ (tables with more than one primary key are not built).
\* index_order is the order in which Python iterates self.indexes: the keys
\* are added while iterating the set unique_columns, whose order is the
\* interpreter's choice.
Table(name, columns, index_order) ==
    LET pks == {i \in DOMAIN columns : columns[i].primary_key}
        uniq == {columns[i].name : i \in
                    {j \in DOMAIN columns :
                        columns[j].primary_key \/ columns[j].unique}}
    IN [name |-> name,
        columns |-> columns,
        column_order |-> [i \in DOMAIN columns |-> columns[i].name],
        rows |-> <<>>,
        indexes |-> [c \in uniq |-> EmptyDict],
        index_order |-> index_order,
        primary_key |-> IF pks = {} THEN ""
                        ELSE columns[CHOOSE i \in pks : TRUE].name,
        unique_columns |-> uniq]

ColumnNames(t) == {t.columns[i].name : i \in DOMAIN t.columns}

\* Table._update_indexes: append row_index to the entry of each held value
\* (the entries of different columns are independent of each other)
_update_indexes(indexes, row, row_index) ==
    [c \in DOMAIN indexes |->
        LET value == Get(row, c)
            d == indexes[c]
        IN IF value.t = "null" THEN d
           ELSE [k \in DOMAIN d \cup {value} |->
                    IF k = value
                    THEN (IF value \in DOMAIN d THEN d[value] ELSE <<>>)
                            \o <<row_index>>
                    ELSE d[k]]]

\* list.remove(x): drops the first occurrence of x
ListRemove(list, x) ==
    LET p == CHOOSE i \in DOMAIN list :
                 list[i] = x /\ \A j \in 1..(i - 1) : list[j] # x
    IN SubSeq(list, 1, p - 1) \o SubSeq(list, p + 1, Len(list))

\* Table._remove_from_indexes, column by column from column k of the
\* iteration order on: list.remove raises ValueError when row_index is not
\* in the entry, and the columns handled before stay changed.
RECURSIVE RemoveFrom(_, _, _, _, _)
RemoveFrom(indexes, cols, k, row, row_index) ==
    IF k > Len(cols) THEN [ok |-> TRUE, indexes |-> indexes]
    ELSE LET c == cols[k]
             value == Get(row, c)
             d == indexes[c]
         IN IF value.t # "null" /\ value \in DOMAIN d
            THEN IF row_index \notin Range(d[value])
                 THEN [ok |-> FALSE, indexes |-> indexes]
                 ELSE LET rest == ListRemove(d[value], row_index)
                          d2 == IF rest = <<>>
                                THEN [x \in DOMAIN d \ {value} |-> d[x]]
                                ELSE [d EXCEPT ![value] = rest]
                      IN RemoveFrom([indexes EXCEPT ![c] = d2],
                                    cols, k + 1, row, row_index)
            ELSE RemoveFrom(indexes, cols, k + 1, row, row_index)

\* A removal that leaves the row's index entries in place
_remove_from_indexes_KeepsEntries(t, row, row_index) ==
    [ok |-> TRUE, indexes |-> t.indexes]

\* Table._remove_from_indexes: [ok, indexes]
_remove_from_indexes(t, row, row_index) ==
    RemoveFrom(t.indexes, t.index_order, 1, row, row_index)

\* Table._validate_row, the loop over the declared columns from column k:
\* the first failing column raises
RECURSIVE ValidateFrom(_, _, _, _)
ValidateFrom(t, row, k, validated_row) ==
    IF k > Len(t.columns) THEN [ok |-> TRUE, row |-> validated_row, err |-> ""]
    ELSE LET column == t.columns[k]
             r == validate_value(column, Get(row, column.name))
         IN IF ~r.ok THEN [ok |-> FALSE, row |-> validated_row, err |-> r.err]
            ELSE IF /\ r.val.t # "null"
                    /\ column.name \in t.unique_columns
                    /\ column.name \in DOMAIN t.indexes
                    /\ r.val \in DOMAIN t.indexes[column.name]
            THEN [ok |-> FALSE, row |-> validated_row, err |-> "duplicate"]
            ELSE ValidateFrom(t, row, k + 1,
                    [c \in DOMAIN validated_row \cup {column.name} |->
                        IF c = column.name THEN r.val ELSE validated_row[c]])

EmptyRow == [c \in {} |-> NullV]

_validate_row(t, row) ==
    IF \E c \in DOMAIN row : c \notin ColumnNames(t)
    THEN [ok |-> FALSE, row |-> EmptyRow, err |-> "unknown_column"]
    ELSE ValidateFrom(t, row, 1, EmptyRow)

\* insert with the append moved before the validation: a rejected row stays
insert_AppendFirst(t, row) ==
    LET v == _validate_row(t, row)
        t1 == [t EXCEPT !.rows = Append(t.rows, v.row)]
    IN IF ~v.ok THEN [ok |-> FALSE, err |-> v.err, table |-> t1]
       ELSE [ok |-> TRUE, err |-> "",
             table |-> [t1 EXCEPT
                 !.indexes = _update_indexes(t.indexes, v.row,
                                             Len(t.rows) + 1)]]

\* Table.insert: [ok, err, table]
insert(t, row) ==
    LET v == _validate_row(t, row)
    IN IF ~v.ok THEN [ok |-> FALSE, err |-> v.err, table |-> t]
       ELSE [ok |-> TRUE, err |-> "",
             table |-> [t EXCEPT
                 !.rows = Append(t.rows, v.row),
                 !.indexes = _update_indexes(t.indexes, v.row,
                                             Len(t.rows) + 1)]]

\* A WHERE clause is a sequence of <<column, expected value>> pairs in the
\* dict's order; None and the empty dict both match every row.
None_where == <<>>

\* Table._matches_where_clause, from condition k on: an undeclared column
\* raises when the loop reaches it, a mismatch before it returns False
RECURSIVE MatchesFrom(_, _, _, _)
MatchesFrom(t, row, where_clause, k) ==
    IF k > Len(where_clause) THEN [ok |-> TRUE, val |-> TRUE]
    ELSE IF where_clause[k][1] \notin ColumnNames(t)
    THEN [ok |-> FALSE, val |-> FALSE]
    ELSE IF ~PyEq(Get(row, where_clause[k][1]), where_clause[k][2])
    THEN [ok |-> TRUE, val |-> FALSE]
    ELSE MatchesFrom(t, row, where_clause, k + 1)

_matches_where_clause(t, row, where_clause) ==
    MatchesFrom(t, row, where_clause, 1)

\* Table.select, the loop over the rows from row i on
RECURSIVE SelectFrom(_, _, _, _, _)
SelectFrom(t, columns, where_clause, i, matching_rows) ==
    IF i > Len(t.rows) THEN [ok |-> TRUE, err |-> "", data |-> matching_rows]
    ELSE LET m == _matches_where_clause(t, t.rows[i], where_clause)
         IN IF ~m.ok
            THEN [ok |-> FALSE, err |-> "unknown_where", data |-> <<>>]
            ELSE SelectFrom(t, columns, where_clause, i + 1,
                    IF m.val
                    THEN Append(matching_rows,
                            [c \in Range(columns) |-> Get(t.rows[i], c)])
                    ELSE matching_rows)

\* Table.select: columns is a sequence of names, <<"*">>, or All (None)
All == <<"*">>

select(t, columns, where_clause) ==
    IF \E c \in Range(columns) : c \notin ColumnNames(t) /\ c # "*"
    THEN [ok |-> FALSE, err |-> "unknown_column", data |-> <<>>]
    ELSE SelectFrom(t, IF columns = <<"*">> THEN t.column_order ELSE columns,
                    where_clause, 1, <<>>)

\* A merge in which the old value of a column wins over its assignment
Merge_OldWins(row, set_values) ==
    [c \in DOMAIN row \cup DOMAIN set_values |->
        IF c \in DOMAIN row THEN row[c] ELSE set_values[c]]

\* row.copy(); row.update(set_values)
Merge(row, set_values) ==
    [c \in DOMAIN row \cup DOMAIN set_values |->
        IF c \in DOMAIN set_values THEN set_values[c] ELSE row[c]]

\* Table.update, the loop over the rows from row i on.  A raise leaves the
\* table as the loop has changed it so far.
RECURSIVE UpdateFrom(_, _, _, _, _)
UpdateFrom(t, set_values, where_clause, i, updated_count) ==
    IF i > Len(t.rows)
    THEN [ok |-> TRUE, err |-> "", table |-> t, count |-> updated_count]
    ELSE LET row == t.rows[i]
             m == _matches_where_clause(t, row, where_clause)
         IN IF ~m.ok
            THEN [ok |-> FALSE, err |-> "unknown_where", table |-> t,
                  count |-> updated_count]
            ELSE IF ~m.val
            THEN UpdateFrom(t, set_values, where_clause, i + 1, updated_count)
            ELSE LET rem == _remove_from_indexes(t, row, i)
                     t1 == [t EXCEPT !.indexes = rem.indexes]
                     v == _validate_row(t1, Merge(row, set_values))
                     t2 == [t1 EXCEPT
                              !.rows[i] = v.row,
                              !.indexes = _update_indexes(t1.indexes, v.row, i)]
                 IN IF ~rem.ok
                    THEN [ok |-> FALSE, err |-> "index", table |-> t1,
                          count |-> updated_count]
                    ELSE IF ~v.ok
                    THEN [ok |-> FALSE, err |-> v.err, table |-> t1,
                          count |-> updated_count]
                    ELSE UpdateFrom(t2, set_values, where_clause, i + 1,
                                    updated_count + 1)

update(t, set_values, where_clause) ==
    UpdateFrom(t, set_values, where_clause, 1, 0)

\* Table._rebuild_indexes, the loop over the rows from row i on
RECURSIVE RebuildFrom(_, _, _)
RebuildFrom(indexes, rows, i) ==
    IF i > Len(rows) THEN indexes
    ELSE RebuildFrom(_update_indexes(indexes, rows[i], i), rows, i + 1)

_rebuild_indexes(t) ==
    [t EXCEPT !.indexes =
        RebuildFrom([c \in DOMAIN t.indexes |-> EmptyDict], t.rows, 1)]

\* Table.delete, first loop: the positions of the matching rows, or the
\* raise of _matches_where_clause
RECURSIVE RowsToDelete(_, _, _, _)
RowsToDelete(t, where_clause, i, rows_to_delete) ==
    IF i > Len(t.rows) THEN [ok |-> TRUE, val |-> rows_to_delete]
    ELSE LET m == _matches_where_clause(t, t.rows[i], where_clause)
         IN IF ~m.ok THEN [ok |-> FALSE, val |-> rows_to_delete]
            ELSE RowsToDelete(t, where_clause, i + 1,
                    IF m.val THEN Append(rows_to_delete, i)
                    ELSE rows_to_delete)

\* A removal that takes the first item whatever the position
RemoveAt_First(seq, i) == Tail(seq)

\* del self.rows[i]
RemoveAt(seq, i) == SubSeq(seq, 1, i - 1) \o SubSeq(seq, i + 1, Len(seq))

\* Table.delete, second loop: from the k-th collected position downwards.
\* A raise of _remove_from_indexes leaves the rows removed so far removed
\* and skips the rebuild.
RECURSIVE DeleteFrom(_, _, _, _)
DeleteFrom(t, rows_to_delete, k, deleted_count) ==
    IF k = 0
    THEN [ok |-> TRUE, err |-> "", table |-> _rebuild_indexes(t),
          count |-> deleted_count]
    ELSE LET i == rows_to_delete[k]
             rem == _remove_from_indexes(t, t.rows[i], i)
             t1 == [t EXCEPT !.indexes = rem.indexes]
         IN IF ~rem.ok
            THEN [ok |-> FALSE, err |-> "index", table |-> t1,
                  count |-> deleted_count]
            ELSE DeleteFrom([t1 EXCEPT !.rows = RemoveAt(t.rows, i)],
                            rows_to_delete, k - 1, deleted_count + 1)

\* A delete that removes the matching rows and leaves the indexes alone
delete_RowsOnly(t, where_clause) ==
    LET found == RowsToDelete(t, where_clause, 1, <<>>)
    IN IF ~found.ok
       THEN [ok |-> FALSE, err |-> "unknown_where", table |-> t, count |-> 0]
       ELSE [ok |-> TRUE, err |-> "",
             table |-> [t EXCEPT !.rows =
                SelectSeq([i \in DOMAIN t.rows |-> <<i, t.rows[i]>>],
                          LAMBDA x : x[1] \notin Range(found.val))],
             count |-> Len(found.val)]

\* Table.delete: [ok, err, table, count]
delete(t, where_clause) ==
    LET found == RowsToDelete(t, where_clause, 1, <<>>)
    IN IF ~found.ok
       THEN [ok |-> FALSE, err |-> "unknown_where", table |-> t, count |-> 0]
       ELSE DeleteFrom(t, found.val, Len(found.val), 0)

\* Column.to_dict / Column.from_dict
Column_to_dict(column) ==
    [name |-> column.name, data_type |-> column.data_type,
     primary_key |-> column.primary_key, unique |-> column.unique,
     nullable |-> column.nullable]

Column_from_dict(data) ==
    Column(data.name, data.data_type, data.primary_key, data.unique,
           data.nullable)

\* A to_dict that serializes the schema and leaves the rows out
to_dict_NoRows(t) ==
    [name |-> t.name,
     columns |-> [i \in DOMAIN t.columns |-> Column_to_dict(t.columns[i])],
     column_order |-> t.column_order,
     rows |-> <<>>,
     primary_key |-> t.primary_key,
     unique_columns |-> t.unique_columns]

\* Table.to_dict: unique_columns becomes a list in the set's own order, which
\* from_dict turns into a set again
to_dict(t) ==
    [name |-> t.name,
     columns |-> [i \in DOMAIN t.columns |-> Column_to_dict(t.columns[i])],
     column_order |-> t.column_order,
     rows |-> t.rows,
     primary_key |-> t.primary_key,
     unique_columns |-> t.unique_columns]

\* The iteration order of the indexes of a table built by from_dict; with
\* one unique column there is one order
OrderOf(columns) ==
    LET uniq == SelectSeq(columns, LAMBDA c : c.primary_key \/ c.unique)
    IN [i \in DOMAIN uniq |-> uniq[i].name]

\* A from_dict that takes the rows over and leaves the indexes as
\* Table.__init__ made them
from_dict_NoRebuild(data) ==
    LET columns == [i \in DOMAIN data.columns |->
                        Column_from_dict(data.columns[i])]
        built == Table(data.name, columns, OrderOf(columns))
    IN [built EXCEPT
            !.rows = data.rows,
            !.column_order = data.column_order,
            !.primary_key = data.primary_key,
            !.unique_columns = data.unique_columns]

\* Table.from_dict: the indexes are rebuilt from the rows
from_dict(data) ==
    LET columns == [i \in DOMAIN data.columns |->
                        Column_from_dict(data.columns[i])]
        built == Table(data.name, columns, OrderOf(columns))
    IN _rebuild_indexes([built EXCEPT
            !.rows = data.rows,
            !.column_order = data.column_order,
            !.primary_key = data.primary_key,
            !.unique_columns = data.unique_columns])

\* Table.__init__ raises when more than one column is a primary key
TooManyPrimaryKeys(columns) ==
    Cardinality({i \in DOMAIN columns : columns[i].primary_key}) > 1

----------------------------------------------------------------------------
(* StorageEngine, the file-backed backend.  A storage is                   *)
(* [storage_format, files, metadata]: files maps a table name to the       *)
(* content of its file table_<name>.json or table_<name>.pkl, metadata is  *)
(* the content of database_metadata.json (rewritten with every change, so  *)
(* the copy in memory and the file agree).                                 *)

\* json.dump of a scalar: None -> null, bool -> true/false, int -> number,
\* str -> string
json_value(v) ==
    CASE v.t = "null" -> [j |-> "null", n |-> 0, s |-> ""]
      [] v.t = "bool" -> [j |-> IF v.n = 1 THEN "true" ELSE "false",
                          n |-> 0, s |-> ""]
      [] v.t = "int" -> [j |-> "number", n |-> v.n, s |-> ""]
      [] OTHER -> [j |-> "string", n |-> 0, s |-> v.s]

\* A json.load of a scalar that reads every number as its text
python_value_NumbersAsText(x) ==
    CASE x.j = "null" -> NullV
      [] x.j = "true" -> BoolV(TRUE)
      [] x.j = "false" -> BoolV(FALSE)
      [] x.j = "number" -> StrV(ToString(x.n))
      [] OTHER -> StrV(x.s)

\* json.load of a scalar
python_value(x) ==
    CASE x.j = "null" -> NullV
      [] x.j = "true" -> BoolV(TRUE)
      [] x.j = "false" -> BoolV(FALSE)
      [] x.j = "number" -> IntV(x.n)
      [] OTHER -> StrV(x.s)

\* json.dump(table_data): the rows' values become JSON values
json_dump(table_data) ==
    [table_data EXCEPT !.rows =
        [i \in DOMAIN table_data.rows |->
            [c \in DOMAIN table_data.rows[i] |->
                json_value(table_data.rows[i][c])]]]

\* json.load(file)
json_load(text) ==
    [text EXCEPT !.rows =
        [i \in DOMAIN text.rows |->
            [c \in DOMAIN text.rows[i] |-> python_value(text.rows[i][c])]]]

NoFiles == [n \in {} |-> <<>>]

\* pickle.dump / pickle.load: the file holds the pickled object, which
\* unpickles to an equal object
pickle_dump(table_data) == [pickle |-> table_data]

pickle_load(text) == text.pickle

\* StorageEngine._create_default_metadata
_create_default_metadata == [tables |-> NoFiles, table_count |-> 0]

\* StorageEngine.__init__ on an empty data directory, with the default format
StorageEngine ==
    [storage_format |-> "json",
     files |-> NoFiles,
     metadata |-> _create_default_metadata]

\* StorageEngine(storage_format = ...) on an empty data directory
StorageEngineWith(storage_format) ==
    [StorageEngine EXCEPT !.storage_format = storage_format]

Without(f, key) == [k \in DOMAIN f \ {key} |-> f[k]]

With(f, key, value) ==
    [k \in DOMAIN f \cup {key} |-> IF k = key THEN value ELSE f[k]]

\* A save_table that counts every save as a new table
save_table_AlwaysCounts(storage, table_name, table_data, io_ok) ==
    IF ~io_ok THEN [storage |-> storage, ret |-> FALSE]
    ELSE [storage |->
            [storage EXCEPT
                !.files = With(storage.files, table_name,
                               IF storage.storage_format = "json"
                               THEN json_dump(table_data)
                               ELSE pickle_dump(table_data)),
                !.metadata =
                    [tables |-> With(storage.metadata.tables, table_name,
                                     [row_count |-> Len(table_data.rows)]),
                     table_count |-> storage.metadata.table_count + 1]],
          ret |-> TRUE]

\* StorageEngine.save_table: [storage, ret].  io_ok = FALSE is a call whose
\* open() of the table file fails: the except branch returns False.
save_table(storage, table_name, table_data, io_ok) ==
    IF ~io_ok THEN [storage |-> storage, ret |-> FALSE]
    ELSE LET is_new_table == table_name \notin DOMAIN storage.metadata.tables
         IN [storage |->
                [storage EXCEPT
                    !.files = With(storage.files, table_name,
                                   IF storage.storage_format = "json"
                                   THEN json_dump(table_data)
                                   ELSE pickle_dump(table_data)),
                    !.metadata =
                        [tables |-> With(storage.metadata.tables, table_name,
                                         [row_count |-> Len(table_data.rows)]),
                         table_count |-> storage.metadata.table_count
                                        + (IF is_new_table THEN 1 ELSE 0)]],
             ret |-> TRUE]

\* StorageEngine.load_table: [found, data]
load_table(storage, table_name) ==
    IF \/ table_name \notin DOMAIN storage.metadata.tables
       \/ table_name \notin DOMAIN storage.files
    THEN [found |-> FALSE, data |-> <<>>]
    ELSE [found |-> TRUE,
          data |-> IF storage.storage_format = "json"
                   THEN json_load(storage.files[table_name])
                   ELSE pickle_load(storage.files[table_name])]

\* A delete_table that unlinks the file and keeps the metadata entry
delete_table_KeepsEntry(storage, table_name, io_ok) ==
    IF table_name \notin DOMAIN storage.metadata.tables
    THEN [storage |-> storage, ret |-> FALSE]
    ELSE [storage |->
            [storage EXCEPT !.files = Without(storage.files, table_name)],
          ret |-> TRUE]

\* StorageEngine.delete_table: [storage, ret].  io_ok = FALSE is a call
\* whose unlink() fails.
delete_table(storage, table_name, io_ok) ==
    IF table_name \notin DOMAIN storage.metadata.tables
    THEN [storage |-> storage, ret |-> FALSE]
    ELSE IF ~io_ok /\ table_name \in DOMAIN storage.files
    THEN [storage |-> storage, ret |-> FALSE]
    ELSE [storage |->
            [storage EXCEPT
                !.files = Without(storage.files, table_name),
                !.metadata =
                    [tables |-> Without(storage.metadata.tables, table_name),
                     table_count |-> storage.metadata.table_count - 1]],
          ret |-> TRUE]

\* StorageEngine.list_tables
list_tables(storage) == DOMAIN storage.metadata.tables

\* A directory outside the data directory: whether it exists, its table
\* files by table name, and its database_metadata.json (<<>> when absent)
NoDirectory == [exists |-> FALSE, files |-> NoFiles, metadata_file |-> <<>>]

\* StorageEngine._init_metadata: the metadata file's content when the file
\* is there, the default metadata otherwise
_init_metadata(metadata_file) ==
    IF metadata_file # <<>> THEN metadata_file[1]
    ELSE _create_default_metadata

\* shutil.copy2 of every file of one directory into another: a file of the
\* destination with the same name is overwritten, any other file stays
CopyFiles(from, to) ==
    [n \in DOMAIN from \cup DOMAIN to |->
        IF n \in DOMAIN from THEN from[n] ELSE to[n]]

\* StorageEngine.backup_database: [backup_dir, ret]
backup_database(storage, directory) ==
    [backup_dir |->
        [exists |-> TRUE,
         files |-> CopyFiles(storage.files, directory.files),
         metadata_file |-> << storage.metadata >>],
     ret |-> TRUE]

\* A restore_database that copies the files back and keeps the metadata it
\* has in memory
restore_database_NoReload(storage, directory) ==
    IF ~directory.exists THEN [storage |-> storage, ret |-> FALSE]
    ELSE [storage |-> [storage EXCEPT !.files = directory.files],
          ret |-> TRUE]

\* StorageEngine.restore_database: [storage, ret]
restore_database(storage, directory) ==
    IF ~directory.exists THEN [storage |-> storage, ret |-> FALSE]
    ELSE [storage |->
            [storage EXCEPT
                !.files = CopyFiles(directory.files, NoFiles),
                !.metadata = _init_metadata(directory.metadata_file)],
          ret |-> TRUE]

----------------------------------------------------------------------------
(* MemoryStorage, the volatile backend.  The dicts and lists it is handed  *)
(* and hands out are objects of a heap, a sequence indexed by address: a   *)
(* table_data dict is [kind, name, rows] with rows the address of its row  *)
(* list, a row list is [kind, items].  A memory is [tables, metadata]:     *)
(* tables maps a table name to the address of the stored dict.             *)

NoObjects == << >>

DictObject(name, rows) == [kind |-> "dict", name |-> name, rows |-> rows]

ListObject(items) == [kind |-> "list", items |-> items]

\* The caller building {"name": name, "rows": [...]}: [heap, ref]
NewTableData(objects, name, rows) ==
    [heap |-> objects \o << ListObject(rows), DictObject(name, Len(objects) + 1) >>,
     ref |-> Len(objects) + 2]

\* dict.copy(): a new dict holding the same objects
dict_copy(objects, ref) == [heap |-> Append(objects, objects[ref]), ref |-> Len(objects) + 1]

\* copy.deepcopy of a table_data dict: a new row list and a new dict
deepcopy(objects, ref) ==
    [heap |-> objects \o << ListObject(objects[objects[ref].rows].items),
                         DictObject(objects[ref].name, Len(objects) + 1) >>,
     ref |-> Len(objects) + 2]

\* The value a table_data object holds: its name and its rows
Content(objects, ref) ==
    [name |-> objects[ref].name, rows |-> objects[objects[ref].rows].items]

\* MemoryStorage.__init__
MemoryStorage == [tables |-> NoFiles, metadata |-> [table_count |-> 0]]

\* MemoryStorage.save_table: [memory, heap, ret]
MemoryStorage_save_table(store, objects, table_name, table_data) ==
    LET copied == dict_copy(objects, table_data)
    IN [memory |->
            [tables |-> With(store.tables, table_name, copied.ref),
             metadata |->
                [table_count |-> store.metadata.table_count
                    + (IF table_name \notin DOMAIN store.tables
                       THEN 1 ELSE 0)]],
        heap |-> copied.heap,
        ret |-> TRUE]

\* A load_table that hands out the stored dict itself
MemoryStorage_load_table_NoCopy(store, objects, table_name) ==
    IF table_name \notin DOMAIN store.tables
    THEN [found |-> FALSE, ref |-> 0, heap |-> objects]
    ELSE [found |-> TRUE, ref |-> store.tables[table_name], heap |-> objects]

\* MemoryStorage.load_table: [found, ref, heap]
MemoryStorage_load_table(store, objects, table_name) ==
    IF table_name \notin DOMAIN store.tables
    THEN [found |-> FALSE, ref |-> 0, heap |-> objects]
    ELSE LET copied == deepcopy(objects, store.tables[table_name])
         IN [found |-> TRUE, ref |-> copied.ref, heap |-> copied.heap]

\* MemoryStorage.delete_table: [memory, ret]
MemoryStorage_delete_table(store, table_name) ==
    IF table_name \in DOMAIN store.tables
    THEN [memory |->
            [tables |-> Without(store.tables, table_name),
             metadata |->
                [table_count |-> store.metadata.table_count - 1]],
          ret |-> TRUE]
    ELSE [memory |-> store, ret |-> FALSE]

\* MemoryStorage.list_tables
MemoryStorage_list_tables(store) == DOMAIN store.tables

----------------------------------------------------------------------------
(* QueryParser.parse, at the level of statement shapes.  A statement text  *)
(* is given by its leading keywords (upper-cased, whitespace normalised)   *)
(* and the clauses the regular expressions extract from it.                *)

NoJoin == [left_table |-> "", left_column |-> "", right_table |-> "",
           right_column |-> ""]

\* ParsedQuery, with "" / <<>> for a field that is None
ParsedQuery(query_type) ==
    [query_type |-> query_type, table_name |-> "", columns |-> <<>>,
     values |-> <<>>, where_clause |-> None_where,
     set_values |-> EmptyRow, join_table |-> "", join_condition |-> NoJoin]

\* A statement text: its keywords and its clauses
Statement(keywords, table_name) ==
    [ParsedQuery("") EXCEPT !.query_type = keywords,
                            !.table_name = table_name]

\* QueryParser.parse: the ParsedQuery, or the ValueError it raises
parse(query) ==
    LET kw == query.query_type
        as(query_type) ==
            [ok |-> TRUE, err |-> "",
             query |-> [query EXCEPT !.query_type = query_type]]
        error(text) == [ok |-> FALSE, err |-> text, query |-> query]
    IN CASE kw = "" -> error("Empty query")
         [] kw = "INSERT" -> error("Invalid INSERT syntax")
         [] kw = "DELETE" -> error("Invalid DELETE syntax")
         [] kw = "CREATE TABLE" -> as("CREATE_TABLE")
         [] kw = "INSERT INTO" -> as("INSERT")
         [] kw = "SELECT" -> as("SELECT")
         [] kw = "UPDATE" -> as("UPDATE")
         [] kw = "DELETE FROM" -> as("DELETE")
         [] kw = "DROP TABLE" -> as("DROP_TABLE")
         [] kw = "SHOW TABLES" -> as("SHOW TABLES")
         [] kw \in {"DESCRIBE", "DESC"} -> as("DESCRIBE")
         [] OTHER -> error("Unsupported query type")

----------------------------------------------------------------------------
(* QueryParser._parse_select on the text                                   *)
(*     SELECT * FROM A JOIN B ON A.x = B.y                                 *)
(* character by character.  A text is a sequence of one-character strings. *)

Letters == {"a", "w", "E"}

Identifiers == UNION {[1..n -> Letters] : n \in 1..MaxLen}

\* The text after "ON ": A.x = B.y
on_text(A, x, B, y) ==
    A \o <<".">> \o x \o <<" ", "=", " ">> \o B \o <<".">> \o y

\* [^WHERE\s] under re.IGNORECASE: any character but w, h, e, r in either
\* case and white space
InClass(ch) == ch \notin {"W", "H", "E", "R", "w", "h", "e", "r", " "}

\* \w: the texts hold letters, dots, blanks and equals signs only
IsWord(ch) == ch \notin {".", " ", "="}

IsBlank(ch) == ch = " "

\* Whether a character is of a pattern's character class
Matches(class, ch) ==
    CASE class = "[^WHERE\\s]" -> InClass(ch)
      [] class = "\\w" -> IsWord(ch)
      [] class = "\\s" -> IsBlank(ch)

\* The end of the longest run of characters of a class that starts at
\* position i: i - 1 when there is none
RECURSIVE RunEnd(_, _, _)
RunEnd(text, i, class) ==
    IF i <= Len(text) /\ Matches(class, text[i])
    THEN RunEnd(text, i + 1, class)
    ELSE i - 1

\* The position after \s* read from position i
SkipBlanks(text, i) == RunEnd(text, i, "\\s") + 1

At(text, i) == IF i \in DOMAIN text THEN text[i] ELSE ""

\* (?:\s*=\s*[^WHERE\s]+)* read after position end: the end of the match
RECURSIVE MoreEqualities(_, _)
MoreEqualities(text, end) ==
    LET eq == SkipBlanks(text, end + 1)
        start == SkipBlanks(text, eq + 1)
        next_end == RunEnd(text, start, "[^WHERE\\s]")
    IN IF At(text, eq) = "=" /\ next_end >= start
       THEN MoreEqualities(text, next_end)
       ELSE end

\* Group 2 of join_match, ([^WHERE\s]+(?:\s*=\s*[^WHERE\s]+)*), read at the
\* start of the text after "ON ": <<>> when the group, and with it the JOIN
\* pattern, does not match
join_on(text) ==
    LET first_end == RunEnd(text, 1, "[^WHERE\\s]")
    IN IF first_end < 1 THEN <<>>
       ELSE SubSeq(text, 1, MoreEqualities(text, first_end))

EmptyCondition ==
    [empty |-> TRUE, left_table |-> <<>>, left_column |-> <<>>,
     right_table |-> <<>>, right_column |-> <<>>]

\* QueryParser._parse_join_condition:
\* re.match(r"(\w+)\.(\w+)\s*=\s*(\w+)\.(\w+)", join_on), else {}
_parse_join_condition(text) ==
    LET w1 == RunEnd(text, 1, "\\w")
        w2 == RunEnd(text, w1 + 2, "\\w")
        eq == SkipBlanks(text, w2 + 1)
        s3 == SkipBlanks(text, eq + 1)
        w3 == RunEnd(text, s3, "\\w")
        w4 == RunEnd(text, w3 + 2, "\\w")
    IN IF /\ w1 >= 1 /\ At(text, w1 + 1) = "." /\ w2 >= w1 + 2
          /\ At(text, eq) = "="
          /\ w3 >= s3 /\ At(text, w3 + 1) = "." /\ w4 >= w3 + 2
       THEN [empty |-> FALSE,
             left_table |-> SubSeq(text, 1, w1),
             left_column |-> SubSeq(text, w1 + 2, w2),
             right_table |-> SubSeq(text, s3, w3),
             right_column |-> SubSeq(text, w3 + 2, w4)]
       ELSE EmptyCondition

\* The join part of QueryParser._parse_select for the text
\* SELECT * FROM <from_table> JOIN <join_table> ON <on>: join_table <<>> and
\* join_condition <<>> are None
_parse_select(from_table, join_table, on) ==
    IF join_on(on) = <<>>
    THEN [table_name |-> from_table, join_table |-> <<>>,
          join_condition |-> <<>>]
    ELSE [table_name |-> from_table, join_table |-> join_table,
          join_condition |-> _parse_join_condition(join_on(on))]

NoText == [A |-> <<>>, B |-> <<>>, x |-> <<>>, y |-> <<>>]
NotParsed == [done |-> FALSE, query |-> <<>>]

----------------------------------------------------------------------------
(* Database.  A database is [tables, storage]: the live table map and the  *)
(* storage backend.  A handler returns [db, result, raised]: raised is an  *)
(* exception that leaves the handler.                                      *)

NoData == [none |-> TRUE, rows |-> <<>>]
Data(rows) == [none |-> FALSE, rows |-> rows]

\* QueryResult: data is None or a list, error is None (<<>>) or a text
QueryResult(success, data, rows_affected, error) ==
    [success |-> success, data |-> data, rows_affected |-> rows_affected,
     error |-> error]

Failure(error) == QueryResult(FALSE, NoData, 0, error)

\* storage_failed: a storage call of the handler hit an I/O error
ReturnsIO(db, result, storage_failed) ==
    [db |-> db, result |-> result, raised |-> <<>>,
     storage_failed |-> storage_failed]

Returns(db, result) == ReturnsIO(db, result, FALSE)

\* Database._load_tables_from_storage: the tables the storage lists, loaded
\* and rebuilt; a table that does not load is skipped
_load_tables_from_storage(storage) ==
    LET loadable == {n \in list_tables(storage) :
                        load_table(storage, n).found}
    IN [n \in loadable |-> from_dict(load_table(storage, n).data)]

\* Database._save_table_to_storage: [storage, ret]
_save_table_to_storage(db, table_name, io_ok) ==
    IF table_name \in DOMAIN db.tables
    THEN save_table(db.storage, table_name, to_dict(db.tables[table_name]),
                    io_ok)
    ELSE [storage |-> db.storage, ret |-> FALSE]

\* The outcome of a handler that saved the table it changed: the result of
\* the save is dropped
Persisted(db, saved, rows_affected) ==
    ReturnsIO([db EXCEPT !.storage = saved.storage],
              QueryResult(TRUE, NoData, rows_affected, <<>>), ~saved.ret)

\* The end of _execute_insert, _execute_update and _execute_delete: r is what
\* the Table call returned or raised, and the table object is the one the
\* call worked on
AfterTableCall(db, table_name, r, failed, io_ok) ==
    IF ~r.ok
    THEN Returns([db EXCEPT !.tables[table_name] = r.table],
                 Failure(<<failed, r.err>>))
    ELSE Persisted([db EXCEPT !.tables[table_name] = r.table],
                   _save_table_to_storage(
                       [db EXCEPT !.tables[table_name] = r.table],
                       table_name, io_ok),
                   r.count)

\* The end of _execute_create_table: the table is in self.tables when it is
\* saved, and stays there when the save returns False
NewTableStored(db, table_name, saved) ==
    IF saved.ret
    THEN Returns([db EXCEPT !.storage = saved.storage],
                 QueryResult(TRUE, NoData, 0, <<>>))
    ELSE ReturnsIO([db EXCEPT !.storage = saved.storage],
                   Failure(<<"Failed to save table", table_name>>), TRUE)

StoreNewTable(db, table_name, io_ok) ==
    NewTableStored(db, table_name,
                   _save_table_to_storage(db, table_name, io_ok))

\* A CREATE TABLE that does not look for a live table of the same name
_execute_create_table_Replaces(db, parsed_query, io_ok) ==
    LET table_name == parsed_query.table_name
        columns == [i \in DOMAIN parsed_query.columns |->
                      Column(parsed_query.columns[i].name,
                             parsed_query.columns[i].type,
                             parsed_query.columns[i].primary_key,
                             parsed_query.columns[i].unique,
                             parsed_query.columns[i].nullable)]
    IN IF TooManyPrimaryKeys(columns)
       THEN Returns(db, Failure(<<"Error creating table",
                                  "Table can have only one primary key">>))
       ELSE StoreNewTable(
               [db EXCEPT !.tables =
                    With(db.tables, table_name,
                         Table(table_name, columns, OrderOf(columns)))],
               table_name, io_ok)

\* Database._execute_create_table
_execute_create_table(db, parsed_query, io_ok) ==
    LET table_name == parsed_query.table_name
        columns == [i \in DOMAIN parsed_query.columns |->
                      Column(parsed_query.columns[i].name,
                             parsed_query.columns[i].type,
                             parsed_query.columns[i].primary_key,
                             parsed_query.columns[i].unique,
                             parsed_query.columns[i].nullable)]
    IN IF table_name \in DOMAIN db.tables
       THEN Returns(db, Failure(<<"Table already exists", table_name>>))
       ELSE IF TooManyPrimaryKeys(columns)
       THEN Returns(db, Failure(<<"Error creating table",
                                  "Table can have only one primary key">>))
       ELSE StoreNewTable(
               [db EXCEPT !.tables =
                    With(db.tables, table_name,
                         Table(table_name, columns, OrderOf(columns)))],
               table_name, io_ok)

\* dict(zip(table.column_order, values_list))
Zip(column_order, values_list) ==
    LET n == IF Len(column_order) < Len(values_list)
             THEN Len(column_order) ELSE Len(values_list)
    IN [c \in {column_order[i] : i \in 1..n} |->
          values_list[CHOOSE i \in 1..n :
              column_order[i] = c
                  /\ \A j \in (i + 1)..n : column_order[j] # c]]

\* Database._execute_insert, the loop over the value rows from row k on: a
\* raise of Table.insert keeps the rows inserted before it
RECURSIVE InsertRowsFrom(_, _, _, _), RowInserted(_, _, _, _, _)
InsertRowsFrom(t, values, k, rows_inserted) ==
    IF k > Len(values)
    THEN [ok |-> TRUE, err |-> "", table |-> t, count |-> rows_inserted]
    ELSE RowInserted(t, values, k, rows_inserted,
                     insert(t, IF values[k].values_only
                               THEN Zip(t.column_order, values[k].list)
                               ELSE values[k].dict))

RowInserted(t, values, k, rows_inserted, r) ==
    IF ~r.ok
    THEN [ok |-> FALSE, err |-> r.err, table |-> t, count |-> rows_inserted]
    ELSE InsertRowsFrom(r.table, values, k + 1, rows_inserted + 1)

\* An answer to a statement on an unknown table that reports success
NoSuchTable_Succeeds(db, table_name) ==
    Returns(db, QueryResult(TRUE, NoData, 0, <<>>))

\* The answer of a handler whose table is not in self.tables
NoSuchTable(db, table_name) ==
    Returns(db, Failure(<<"Table does not exist", table_name>>))

_execute_insert(db, parsed_query, io_ok) ==
    LET table_name == parsed_query.table_name
    IN IF table_name \notin DOMAIN db.tables
       THEN NoSuchTable(db, table_name)
       ELSE AfterTableCall(
               db, table_name,
               InsertRowsFrom(db.tables[table_name], parsed_query.values,
                              1, 0),
               "Insert failed", io_ok)

\* Database._execute_update
_execute_update(db, parsed_query, io_ok) ==
    LET table_name == parsed_query.table_name
    IN IF table_name \notin DOMAIN db.tables
       THEN NoSuchTable(db, table_name)
       ELSE AfterTableCall(
               db, table_name,
               update(db.tables[table_name], parsed_query.set_values,
                      parsed_query.where_clause),
               "Update failed", io_ok)

\* Database._execute_delete
_execute_delete(db, parsed_query, io_ok) ==
    LET table_name == parsed_query.table_name
    IN IF table_name \notin DOMAIN db.tables
       THEN NoSuchTable(db, table_name)
       ELSE AfterTableCall(
               db, table_name,
               delete(db.tables[table_name], parsed_query.where_clause),
               "Delete failed", io_ok)

\* The end of _execute_drop_table; a delete_table that returns False for a
\* table the storage lists is one whose file operation failed
Dropped(db, listed, deleted) ==
    ReturnsIO([db EXCEPT !.storage = deleted.storage],
              QueryResult(TRUE, NoData, 0, <<>>), listed /\ ~deleted.ret)

\* Database._execute_drop_table: the outcome of storage.delete_table is not
\* looked at
_execute_drop_table(db, parsed_query, io_ok) ==
    LET table_name == parsed_query.table_name
    IN IF table_name \notin DOMAIN db.tables
       THEN NoSuchTable(db, table_name)
       ELSE Dropped([db EXCEPT !.tables = Without(db.tables, table_name)],
                    table_name \in list_tables(db.storage),
                    delete_table(db.storage, table_name, io_ok))

\* A list built by iterating a dict or a set, as a sequence in some order
RECURSIVE ListOf(_)
ListOf(S) ==
    IF S = {} THEN <<>>
    ELSE LET x == CHOOSE y \in S : TRUE IN <<x>> \o ListOf(S \ {x})

\* Database._execute_show_tables
_execute_show_tables(db) ==
    LET names == ListOf(DOMAIN db.tables)
        tables_info ==
            [i \in DOMAIN names |->
                [table_name |-> names[i],
                 row_count |-> Len(db.tables[names[i]].rows)]]
    IN Returns(db, QueryResult(TRUE, Data(tables_info), Len(tables_info),
                               <<>>))

\* Database._execute_describe
_execute_describe(db, parsed_query) ==
    LET table_name == parsed_query.table_name
        t == db.tables[table_name]
        cols == [c \in ColumnNames(t) |->
                    CHOOSE column \in Range(t.columns) : column.name = c]
        schema_info ==
            [i \in DOMAIN t.column_order |->
                LET column == cols[t.column_order[i]]
                IN [column_name |-> column.name,
                    data_type |-> column.data_type,
                    nullable |-> IF column.nullable THEN "YES" ELSE "NO",
                    key |-> IF column.primary_key THEN "PRI"
                            ELSE IF column.unique THEN "UNI" ELSE ""]]
    IN IF table_name \notin DOMAIN db.tables
       THEN NoSuchTable(db, table_name)
       ELSE Returns(db, QueryResult(TRUE, Data(schema_info),
                                    Len(schema_info), <<>>))

\* Database._evaluate_join_condition: the table names of the condition are
\* not read; left_column is looked up in the left row and right_column in
\* the right row
_evaluate_join_condition(left_row, right_row, condition) ==
    IF condition = NoJoin THEN TRUE
    ELSE IF condition.left_column # "" /\ condition.right_column # ""
    THEN PyEq(Get(left_row, condition.left_column),
              Get(right_row, condition.right_column))
    ELSE TRUE

\* The key f"{table_name}.{col}" of a combined row is the pair
\* <<table_name, col>>; a column written without a table is <<"", col>>.
\* Identifiers hold no dot, so full_col.endswith("." + col) is full_col[2] =
\* col for a column written without a table and false for a qualified one.
Key(table_name, col) == <<table_name, col>>

\* The combined row of a pair: the right row's keys overwrite equal keys
combined_row(left_table_name, left_row, right_table_name, right_row) ==
    [k \in {Key(left_table_name, c) : c \in DOMAIN left_row}
            \cup {Key(right_table_name, c) : c \in DOMAIN right_row} |->
        IF k[1] = right_table_name /\ k[2] \in DOMAIN right_row
        THEN right_row[k[2]]
        ELSE left_row[k[2]]]

\* The keys of a combined row in the dict's order: the left table's columns,
\* then the right table's columns not yet present
KeyOrder(left_table, right_table) ==
    LET l == [i \in DOMAIN left_table.column_order |->
                Key(left_table.name, left_table.column_order[i])]
        r == [i \in DOMAIN right_table.column_order |->
                Key(right_table.name, right_table.column_order[i])]
    IN l \o SelectSeq(r, LAMBDA k : k \notin Range(l))

\* The first key of the row, in the dict's order, that ends with "." + col
EndsWith(full_col, col) == col[1] = "" /\ full_col[2] = col[2]

FirstSuffixMatch(keys, row, col) ==
    LET hits == SelectSeq(keys, LAMBDA k : k \in DOMAIN row /\ EndsWith(k, col))
    IN IF hits = <<>> THEN <<>> ELSE <<hits[1]>>

\* Database._evaluate_where_clause_on_joined_row, from condition k on
RECURSIVE JoinedWhereFrom(_, _, _, _)
JoinedWhereFrom(keys, row, where_clause, k) ==
    IF k > Len(where_clause) THEN TRUE
    ELSE LET col_name == where_clause[k][1]
             expected_value == where_clause[k][2]
             hit == FirstSuffixMatch(keys, row, col_name)
         IN IF col_name \in DOMAIN row
            THEN IF ~PyEq(row[col_name], expected_value) THEN FALSE
                 ELSE JoinedWhereFrom(keys, row, where_clause, k + 1)
            ELSE IF hit = <<>> THEN FALSE
            ELSE IF ~PyEq(row[hit[1]], expected_value) THEN FALSE
            ELSE JoinedWhereFrom(keys, row, where_clause, k + 1)

_evaluate_where_clause_on_joined_row(keys, row, where_clause) ==
    JoinedWhereFrom(keys, row, where_clause, 1)

\* The projection of _execute_join_select: a column that resolves to no key
\* projects as None
projected_row(keys, row, columns) ==
    [col \in Range(columns) |->
        IF col \in DOMAIN row THEN row[col]
        ELSE LET hit == FirstSuffixMatch(keys, row, col)
             IN IF hit = <<>> THEN NullV ELSE row[hit[1]]]

\* SELECT * of a join
AllJoined == << <<"", "*">> >>

\* The nested loops of _execute_join_select: the kept pairs in left-major
\* order
RECURSIVE JoinFrom(_, _, _, _, _, _, _)
JoinFrom(left_name, left_rows, right_name, right_rows, condition, i, j) ==
    IF i > Len(left_rows) THEN <<>>
    ELSE IF j > Len(right_rows)
    THEN JoinFrom(left_name, left_rows, right_name, right_rows, condition,
                  i + 1, 1)
    ELSE (IF _evaluate_join_condition(left_rows[i], right_rows[j], condition)
          THEN <<combined_row(left_name, left_rows[i],
                              right_name, right_rows[j])>>
          ELSE <<>>)
         \o JoinFrom(left_name, left_rows, right_name, right_rows, condition,
                     i, j + 1)

\* The WHERE filter of _execute_join_select
filtered_results(keys, where_clause, join_results) ==
    IF where_clause = None_where THEN join_results
    ELSE SelectSeq(join_results,
            LAMBDA row : _evaluate_where_clause_on_joined_row(
                            keys, row, where_clause))

\* The column projection of _execute_join_select
projected_results(keys, columns, rows) ==
    IF columns = <<>> \/ columns = AllJoined THEN rows
    ELSE [i \in DOMAIN rows |-> projected_row(keys, rows[i], columns)]

\* QueryResult(success=True, data=rows, rows_affected=len(rows))
RowsResult(db, rows) ==
    Returns(db, QueryResult(TRUE, Data(rows), Len(rows), <<>>))

\* Database._execute_join_select
_execute_join_select(db, parsed_query) ==
    LET left_table_name == parsed_query.table_name
        right_table_name == parsed_query.join_table
        left_table == db.tables[left_table_name]
        right_table == db.tables[right_table_name]
        left_rows == select(left_table, left_table.column_order,
                            None_where).data
        right_rows == select(right_table, right_table.column_order,
                             None_where).data
        keys == KeyOrder(left_table, right_table)
    IN IF left_table_name \notin DOMAIN db.tables
       THEN NoSuchTable(db, left_table_name)
       ELSE IF right_table_name \notin DOMAIN db.tables
       THEN NoSuchTable(db, right_table_name)
       ELSE RowsResult(db,
               projected_results(keys, parsed_query.columns,
                   filtered_results(keys, parsed_query.where_clause,
                       JoinFrom(left_table_name, left_rows,
                                right_table_name, right_rows,
                                parsed_query.join_condition, 1, 1))))

\* The end of _execute_select: r is what Table.select returned or raised
Selected(db, r) ==
    IF ~r.ok THEN Returns(db, Failure(<<"Select failed", r.err>>))
    ELSE RowsResult(db, r.data)

\* Database._execute_select
_execute_select(db, parsed_query) ==
    LET table_name == parsed_query.table_name
    IN IF table_name \notin DOMAIN db.tables
       THEN NoSuchTable(db, table_name)
       ELSE IF parsed_query.join_table # ""
       THEN _execute_join_select(db, parsed_query)
       ELSE Selected(db, select(db.tables[table_name], parsed_query.columns,
                                parsed_query.where_clause))

\* The dispatch of Database.execute_query on the parsed query's type
Dispatch(db, parsed_query, io_ok) ==
    LET query_type == parsed_query.query_type
    IN CASE query_type = "CREATE_TABLE" ->
                _execute_create_table(db, parsed_query, io_ok)
         [] query_type = "INSERT" -> _execute_insert(db, parsed_query, io_ok)
         [] query_type = "SELECT" -> _execute_select(db, parsed_query)
         [] query_type = "UPDATE" -> _execute_update(db, parsed_query, io_ok)
         [] query_type = "DELETE" -> _execute_delete(db, parsed_query, io_ok)
         [] query_type = "DROP_TABLE" ->
                _execute_drop_table(db, parsed_query, io_ok)
         [] query_type = "SHOW_TABLES" -> _execute_show_tables(db)
         [] query_type = "DESCRIBE" -> _execute_describe(db, parsed_query)
         [] OTHER ->
                Returns(db, Failure(<<"Unsupported query type", query_type>>))

\* execute_query without its try/except: a parse error leaves the call
execute_query_NoExcept(db, query, io_ok) ==
    IF ~parse(query).ok
    THEN [db |-> db, result |-> Failure(<<>>),
          raised |-> <<parse(query).err>>, storage_failed |-> FALSE]
    ELSE Dispatch(db, parse(query).query, io_ok)

\* Database.execute_query: [db, result, raised]; whatever is raised inside
\* the try becomes a failed QueryResult carrying str(e)
execute_query(db, query, io_ok) ==
    IF ~parse(query).ok THEN Returns(db, Failure(<<parse(query).err>>))
    ELSE Dispatch(db, parse(query).query, io_ok)

\* Database.__init__ on a storage: the live tables are those it lists
Database(storage) ==
    [tables |-> _load_tables_from_storage(storage), storage |-> storage]

\* Database.close followed by Database.__init__ on the same data directory:
\* every live table is saved, the live map is cleared, and the new instance
\* loads what the storage lists
RECURSIVE SaveAll(_, _, _)
SaveAll(db, names, io_ok) ==
    IF names = {} THEN db
    ELSE LET n == CHOOSE x \in names : TRUE
         IN SaveAll([db EXCEPT !.storage =
                        _save_table_to_storage(db, n, io_ok).storage],
                    names \ {n}, io_ok)

close(db, io_ok) ==
    [tables |-> [n \in {} |-> <<>>],
     storage |-> SaveAll(db, DOMAIN db.tables, io_ok).storage]

\* Database.backup: [backup_dir, ret]
backup(db, directory) == backup_database(db.storage, directory)

\* Database.restore: [db, ret]
restore(db, directory) ==
    LET success == restore_database(db.storage, directory)
    IN [db |-> IF success.ret THEN Database(success.storage) ELSE db,
        ret |-> success.ret]

----------------------------------------------------------------------------
(* The table-level specification: one Table driven by insert, select,      *)
(* update and delete calls, each of which returns or raises.               *)

\* users(id INT PRIMARY KEY, email TEXT UNIQUE)
UsersColumns ==
    << Column("id", "INT", TRUE, FALSE, TRUE),
       Column("email", "TEXT", FALSE, TRUE, TRUE) >>

\* The values callers supply for id (an INT column): None, ints, and a text
\* that is no number
IdInputs == {NullV, StrV("a")} \cup {IntV(i) : i \in 1..MaxVal}

\* The values callers supply for email (a TEXT column): None, and an int,
\* which the column stores as its decimal text
EmailInputs == {NullV, IntV(1)}

\* dicts with the given values under the given keys; a key may be missing
DictsOver(ids, emails) ==
    {[c \in {} |-> NullV]}
        \cup {[c \in {"id"} |-> i] : i \in ids}
        \cup {[c \in {"email"} |-> e] : e \in emails}
        \cup {[c \in {"id", "email"} |-> IF c = "id" THEN ie[1] ELSE ie[2]] :
                ie \in ids \X emails}

\* The rows to insert: dicts over the declared columns, and two that name
\* an undeclared column
InputDicts ==
    DictsOver(IdInputs, EmailInputs)
        \cup {[c \in {"bogus"} |-> NullV],
              [c \in {"id", "bogus"} |-> IntV(1)]}

\* The assignments of an update: at most one column
Assignments ==
    {d \in InputDicts : Cardinality(DOMAIN d) <= 1}

\* WHERE clauses of one condition, and of two conditions the second of which
\* names an undeclared column
Where1 ==
    {<< <<"id", IntV(i)>> >> : i \in 1..MaxVal}
        \cup {<< <<"email", v>> >> : v \in {NullV, StrV("1")}}
        \cup {<< <<"bogus", NullV>> >>}

Where2 ==
    {<< <<"id", IntV(i)>>, <<"bogus", NullV>> >> : i \in 1..MaxVal}
        \cup {<< <<"email", StrV("1")>>, <<"bogus", NullV>> >>}

Orders(S) == {p \in [1..Cardinality(S) -> S] : Range(p) = S}

NoCall == [op |-> "none", ok |-> TRUE, err |-> ""]

\* answer before any statement: query is the statement that was executed,
\* r the QueryResult returned, raised what left the call instead,
\* storage_failed whether a file operation of the call failed, reopened
\* whether the step was a close() and reopen rather than a statement
NoStatement ==
    [query |-> Statement("", ""), r |-> QueryResult(TRUE, NoData, 0, <<>>),
     raised |-> <<>>, storage_failed |-> FALSE, reopened |-> FALSE]

\* handles before any call: the caller holds no table_data object
NothingHeld == [saved |-> 0, loaded |-> 0]

\* snapshot before any backup: tables is what the storage held when the
\* backup was taken, changed the tables saved or deleted since
NoSnapshot == [taken |-> FALSE, tables |-> NoFiles, changed |-> {}]

\* returned before any storage call
NoStorageCall == [call |-> "none", table_name |-> "", ret |-> TRUE]

\* The storage-level variables of a specification that calls no backend
\* directly
StorageIdle ==
    /\ backend = "json"
    /\ memory = MemoryStorage
    /\ heap = NoObjects
    /\ handles = NothingHeld
    /\ backup_dir = NoDirectory
    /\ snapshot = NoSnapshot
    /\ last_saved = NoFiles
    /\ returned = NoStorageCall

\* The thread variables of a specification with one caller
ThreadsIdle ==
    /\ threads = << >>
    /\ lock = 0

Init ==
    /\ \E order \in Orders({"id", "email"}) :
           table = Table("users", UsersColumns, order)
    /\ last = NoCall
    /\ database = Database(StorageEngine)
    /\ answer = NoStatement
    /\ io_faulted = FALSE
    /\ select_text = NoText
    /\ parsed = NotParsed
    /\ StorageIdle
    /\ ThreadsIdle

Insert(row) ==
    /\ Len(table.rows) < MaxRows
    /\ LET r == insert(table, row)
       IN /\ table' = r.table
          /\ last' = [NoCall EXCEPT !.op = "insert", !.ok = r.ok,
                                    !.err = r.err]
    /\ UNCHANGED <<dbvars, pvars, svars, cvars>>

Select(columns, where_clause) ==
    /\ LET r == select(table, columns, where_clause)
       IN last' = [NoCall EXCEPT !.op = "select", !.ok = r.ok, !.err = r.err]
    /\ UNCHANGED <<table, dbvars, pvars, svars, cvars>>

Update(set_values, where_clause) ==
    /\ LET r == update(table, set_values, where_clause)
       IN /\ table' = r.table
          /\ last' = [NoCall EXCEPT !.op = "update", !.ok = r.ok,
                                    !.err = r.err]
    /\ UNCHANGED <<dbvars, pvars, svars, cvars>>

Delete(where_clause) ==
    /\ LET r == delete(table, where_clause)
       IN /\ table' = r.table
          /\ last' = [NoCall EXCEPT !.op = "delete", !.ok = r.ok,
                                    !.err = r.err]
    /\ UNCHANGED <<dbvars, pvars, svars, cvars>>

Next ==
    \/ \E row \in InputDicts : Insert(row)
    \/ \E columns \in {All, <<"bogus">>},
          where_clause \in {None_where} \cup Where1 \cup Where2 :
              Select(columns, where_clause)
    \/ \E set_values \in Assignments, where_clause \in {None_where} \cup Where1 :
              Update(set_values, where_clause)
    \/ \E where_clause \in {None_where} \cup Where1 : Delete(where_clause)

Spec == Init /\ [][Next]_vars

----------------------------------------------------------------------------
(* The database-level specification: one Database on a file-backed storage *)
(* executing statements, closed and reopened on the same data directory.   *)

TableNames == {"t", "u"}

ColumnDef(name, type, primary_key) ==
    [name |-> name, type |-> type, primary_key |-> primary_key,
     unique |-> FALSE, nullable |-> ~primary_key]

\* (id INT PRIMARY KEY, tag TEXT) and a definition with two primary keys
GoodColumns == << ColumnDef("id", "INT", TRUE), ColumnDef("tag", "TEXT", FALSE) >>
TwoKeys == << ColumnDef("id", "INT", TRUE), ColumnDef("tag", "TEXT", TRUE) >>

ValuesOnly(list) == [values_only |-> TRUE, list |-> list, dict |-> EmptyRow]

\* VALUES (i) | VALUES (NULL) | VALUES (1, 'a') | VALUES (1), (1)
InsertValues ==
    {<<ValuesOnly(<<IntV(i)>>)>> : i \in 1..MaxVal}
        \cup {<<ValuesOnly(<<NullV>>)>>,
              <<ValuesOnly(<<IntV(1), StrV("a")>>)>>,
              <<ValuesOnly(<<IntV(1)>>), ValuesOnly(<<IntV(1)>>)>>}

\* no WHERE | WHERE id = 1 | WHERE bogus = NULL
StatementWheres ==
    {None_where, << <<"id", IntV(1)>> >>, << <<"bogus", NullV>> >>}

\* SET id = NULL | SET id = 1
SetValues == {[c \in {"id"} |-> v] : v \in {NullV, IntV(1)}}

JoinOnId(n, m) ==
    [left_table |-> n, left_column |-> "id",
     right_table |-> m, right_column |-> "id"]

TotalRows(db) ==
    LET names == ListOf(DOMAIN db.tables)
        F[k \in 0..Len(names)] ==
            IF k = 0 THEN 0 ELSE F[k - 1] + Len(db.tables[names[k]].rows)
    IN F[Len(names)]

InitDB ==
    /\ table = Table("users", UsersColumns, <<"id", "email">>)
    /\ last = NoCall
    /\ database = Database(StorageEngine)
    /\ answer = NoStatement
    /\ io_faulted = FALSE
    /\ select_text = NoText
    /\ parsed = NotParsed
    /\ StorageIdle
    /\ ThreadsIdle

\* One execute_query call; io_ok tells whether its file operations succeed
Answered(query, r) ==
    /\ database' = r.db
    /\ answer' = [query |-> query, r |-> r.result, raised |-> r.raised,
                  storage_failed |-> r.storage_failed, reopened |-> FALSE]
    /\ io_faulted' = (io_faulted \/ r.storage_failed)
    /\ UNCHANGED <<tvars, pvars, svars, cvars>>

Execute(query, io_ok) ==
    /\ io_ok \/ ~io_faulted
    /\ Answered(query, execute_query(database, query, io_ok))

ExecCreateTable(n, columns, io_ok) ==
    Execute([Statement("CREATE TABLE", n) EXCEPT !.columns = columns], io_ok)

ExecInsert(n, values, io_ok) ==
    /\ TotalRows(database) + Len(values) <= MaxRows
    /\ Execute([Statement("INSERT INTO", n) EXCEPT !.values = values], io_ok)

ExecSelect(n, where_clause) ==
    Execute([Statement("SELECT", n) EXCEPT !.columns = All,
                                           !.where_clause = where_clause],
            TRUE)

ExecJoin(n, m, condition) ==
    Execute([Statement("SELECT", n) EXCEPT !.columns = AllJoined,
                                           !.join_table = m,
                                           !.join_condition = condition],
            TRUE)

ExecUpdate(n, set_values, where_clause, io_ok) ==
    Execute([Statement("UPDATE", n) EXCEPT !.set_values = set_values,
                                           !.where_clause = where_clause],
            io_ok)

ExecDelete(n, where_clause, io_ok) ==
    Execute([Statement("DELETE FROM", n) EXCEPT
                !.where_clause = where_clause], io_ok)

ExecDropTable(n, io_ok) == Execute(Statement("DROP TABLE", n), io_ok)

ExecShowTables == Execute(Statement("SHOW TABLES", ""), TRUE)

ExecDescribe(n) == Execute(Statement("DESCRIBE", n), TRUE)

\* INSERT without INTO, DELETE without FROM, an unknown statement
ExecMalformed(keywords) == Execute(Statement(keywords, "t"), TRUE)

\* close() and a new Database on the same data directory
Restart(io_ok) ==
    /\ io_ok \/ ~io_faulted
    /\ database' = Database(close(database, io_ok).storage)
    /\ answer' = [NoStatement EXCEPT !.reopened = TRUE,
                     !.storage_failed = ~io_ok /\ DOMAIN database.tables # {}]
    /\ io_faulted' = (io_faulted \/ (~io_ok /\ DOMAIN database.tables # {}))
    /\ UNCHANGED <<tvars, pvars, svars, cvars>>

\* Statements and restarts while every file operation succeeds
NextDB ==
    \/ \E n \in TableNames, columns \in {GoodColumns, TwoKeys} :
          ExecCreateTable(n, columns, TRUE)
    \/ \E n \in TableNames, values \in InsertValues : ExecInsert(n, values, TRUE)
    \/ \E n \in TableNames, where_clause \in StatementWheres :
          ExecSelect(n, where_clause)
    \/ \E n \in TableNames, m \in TableNames : ExecJoin(n, m, JoinOnId(n, m))
    \/ \E n \in TableNames, set_values \in SetValues,
          where_clause \in StatementWheres :
          ExecUpdate(n, set_values, where_clause, TRUE)
    \/ \E n \in TableNames, where_clause \in StatementWheres :
          ExecDelete(n, where_clause, TRUE)
    \/ \E n \in TableNames : ExecDropTable(n, TRUE)
    \/ ExecShowTables
    \/ \E n \in TableNames : ExecDescribe(n)
    \/ \E keywords \in {"INSERT", "DELETE", "EXPLAIN"} : ExecMalformed(keywords)
    \/ Restart(TRUE)

SpecDB == InitDB /\ [][NextDB]_vars

\* The same on one table t (u is never created), where one file operation
\* of a behaviour may fail
NextIO ==
    \/ \E columns \in {GoodColumns, TwoKeys}, io_ok \in BOOLEAN :
          ExecCreateTable("t", columns, io_ok)
    \/ \E n \in TableNames, values \in InsertValues, io_ok \in BOOLEAN :
          ExecInsert(n, values, io_ok)
    \/ \E n \in TableNames, where_clause \in StatementWheres :
          ExecSelect(n, where_clause)
    \/ \E n \in TableNames : ExecJoin("t", n, JoinOnId("t", n))
    \/ \E n \in TableNames, set_values \in SetValues,
          where_clause \in StatementWheres, io_ok \in BOOLEAN :
          ExecUpdate(n, set_values, where_clause, io_ok)
    \/ \E n \in TableNames, where_clause \in StatementWheres,
          io_ok \in BOOLEAN : ExecDelete(n, where_clause, io_ok)
    \/ \E n \in TableNames, io_ok \in BOOLEAN : ExecDropTable(n, io_ok)
    \/ ExecShowTables
    \/ \E n \in TableNames : ExecDescribe(n)
    \/ \E keywords \in {"INSERT", "DELETE", "EXPLAIN"} : ExecMalformed(keywords)
    \/ \E io_ok \in BOOLEAN : Restart(io_ok)

SpecIO == InitDB /\ [][NextIO]_vars

----------------------------------------------------------------------------
(* The specification of statements by table name: t is created, filled,    *)
(* changed and dropped, u is never created, every file operation succeeds. *)

\* VALUES (i) | VALUES (1, 'a', 'b') | VALUES (MaxVal), (NULL)
LiveInsertValues ==
    {<<ValuesOnly(<<IntV(i)>>)>> : i \in 1..MaxVal}
        \cup {<<ValuesOnly(<<IntV(1), StrV("a"), StrV("b")>>)>>,
              <<ValuesOnly(<<IntV(MaxVal)>>), ValuesOnly(<<NullV>>)>>}

NextLive ==
    \/ \E columns \in {GoodColumns, TwoKeys} :
          ExecCreateTable("t", columns, TRUE)
    \/ \E n \in TableNames, values \in LiveInsertValues :
          ExecInsert(n, values, TRUE)
    \/ \E n \in TableNames : ExecSelect(n, None_where)
    \/ \E n \in TableNames, m \in TableNames : ExecJoin(n, m, JoinOnId(n, m))
    \/ \E n \in TableNames, set_values \in SetValues,
          where_clause \in StatementWheres :
          ExecUpdate(n, set_values, where_clause, TRUE)
    \/ \E n \in TableNames, where_clause \in StatementWheres :
          ExecDelete(n, where_clause, TRUE)
    \/ \E n \in TableNames : ExecDropTable(n, TRUE)
    \/ \E n \in TableNames : ExecDescribe(n)
    \/ Restart(TRUE)

SpecLive == InitDB /\ [][NextLive]_vars

----------------------------------------------------------------------------
(* The specification of WHERE texts: UPDATE and DELETE statements whose    *)
(* WHERE clause is a text of lexemes separated by single blanks, parsed by *)
(* _parse_where_clause and executed on the table t.                        *)

\* The lexemes of a WHERE text
Word(x) == [kind |-> "word", text |-> x, n |-> 0, inner |-> x]
Number(i) == [kind |-> "int", text |-> ToString(i), n |-> i, inner |-> ""]
Quoted(x) ==
    [kind |-> "quoted", text |-> "'" \o x \o "'", n |-> 0, inner |-> x]
Operator(x) == [kind |-> "op", text |-> x, n |-> 0, inner |-> ""]
Keyword(x) == [kind |-> "kw", text |-> x, n |-> 0, inner |-> ""]

\* The text of lexemes, a blank between two of them
RECURSIVE Joined(_)
Joined(lexemes) ==
    IF lexemes = <<>> THEN ""
    ELSE IF Len(lexemes) = 1 THEN lexemes[1].text
    ELSE lexemes[1].text \o " " \o Joined(Tail(lexemes))

\* QueryParser._parse_value of the text of the lexemes: a quoted text
\* without its quotes, a number, and any other text as it is
_parse_value(lexemes) ==
    LET n == Len(lexemes)
    IN IF n = 1
       THEN CASE lexemes[1].kind = "int" -> IntV(lexemes[1].n)
              [] lexemes[1].kind = "quoted" -> StrV(lexemes[1].inner)
              [] OTHER -> StrV(lexemes[1].text)
       ELSE IF lexemes[1].kind = "quoted" /\ lexemes[n].kind = "quoted"
       THEN StrV(lexemes[1].inner \o "' "
                    \o (IF n > 2
                        THEN Joined(SubSeq(lexemes, 2, n - 1)) \o " "
                        ELSE "")
                    \o "'" \o lexemes[n].inner)
       ELSE StrV(Joined(lexemes))

\* re.split(r"\s+AND\s+", where_str): the parts between the AND lexemes
RECURSIVE and_parts(_, _, _)
and_parts(lexemes, k, part) ==
    IF k > Len(lexemes) THEN <<part>>
    ELSE IF lexemes[k].kind = "kw" /\ lexemes[k].text = "AND"
    THEN <<part>> \o and_parts(lexemes, k + 1, <<>>)
    ELSE and_parts(lexemes, k + 1, Append(part, lexemes[k]))

\* conditions[col_name] = value on a dict kept as a sequence of pairs: a key
\* already held keeps its place and gets the new value
DictPut(conditions, col_name, value) ==
    IF \E k \in DOMAIN conditions : conditions[k][1] = col_name
    THEN [k \in DOMAIN conditions |->
            IF conditions[k][1] = col_name THEN <<col_name, value>>
            ELSE conditions[k]]
    ELSE Append(conditions, <<col_name, value>>)

\* re.match(r"(\w+(?:\.\w+)?)\s*=\s*(.+)", part): a word or a number, an
\* equals sign, and at least one more lexeme
eq_match(part) ==
    /\ Len(part) >= 3
    /\ part[1].kind \in {"word", "int"}
    /\ part[2].kind = "op" /\ part[2].text = "="

\* QueryParser._parse_where_clause, the loop over the parts from part k on:
\* a part that is no equality is skipped
RECURSIVE ConditionsFrom(_, _, _)
ConditionsFrom(parts, k, conditions) ==
    IF k > Len(parts) THEN conditions
    ELSE ConditionsFrom(parts, k + 1,
            IF eq_match(parts[k])
            THEN DictPut(conditions, parts[k][1].text,
                         _parse_value(SubSeq(parts[k], 3, Len(parts[k]))))
            ELSE conditions)

\* QueryParser._parse_where_clause of the text after WHERE (<<>> when the
\* statement has no WHERE): the conditions, or None when there is none
_parse_where_clause(where_str) ==
    IF where_str = <<>> THEN None_where
    ELSE ConditionsFrom(and_parts(where_str, 1, <<>>), 1, <<>>)

Equals(column, literal) == <<Word(column), Operator("="), literal>>
Greater(column, literal) == <<Word(column), Operator(">"), literal>>

\* no WHERE | id = 1 | id > 1 | tag = 'a' AND id > 1 | id = 1 AND tag = 'a'
\* | id = 1 OR id = MaxVal | id = 1 AND id = MaxVal
WhereTexts ==
    {<<>>,
     Equals("id", Number(1)),
     Greater("id", Number(1)),
     Equals("tag", Quoted("a")) \o <<Keyword("AND")>>
         \o Greater("id", Number(1)),
     Equals("id", Number(1)) \o <<Keyword("AND")>>
         \o Equals("tag", Quoted("a")),
     Equals("id", Number(1)) \o <<Keyword("OR")>>
         \o Equals("id", Number(MaxVal)),
     Equals("id", Number(1)) \o <<Keyword("AND")>>
         \o Equals("id", Number(MaxVal))}

\* VALUES (i, 'a') | VALUES (i, 'b')
WhereInsertValues ==
    {<<ValuesOnly(<<IntV(i), StrV(x)>>)>> : i \in 1..MaxVal, x \in {"a", "b"}}

InitWhere ==
    /\ table = Table("users", UsersColumns, <<"id", "email">>)
    /\ last = NoCall
    /\ database = Database(StorageEngine)
    /\ answer = NoStatement
    /\ io_faulted = FALSE
    /\ select_text = <<>>
    /\ parsed = NotParsed
    /\ StorageIdle
    /\ ThreadsIdle

\* One execute_query call on a statement text: select_text is the text after
\* WHERE, parsed the ParsedQuery made of it
TextAnswered(where_str, query, r) ==
    /\ select_text' = where_str
    /\ parsed' = [done |-> TRUE, query |-> query]
    /\ database' = r.db
    /\ answer' = [query |-> query, r |-> r.result, raised |-> r.raised,
                  storage_failed |-> r.storage_failed, reopened |-> FALSE]
    /\ UNCHANGED <<tvars, io_faulted, svars, cvars>>

TextExecuted(where_str, query) ==
    TextAnswered(where_str, query, execute_query(database, query, TRUE))

\* CREATE TABLE t (id INT PRIMARY KEY, tag TEXT)
CreateText ==
    TextExecuted(<<>>, [Statement("CREATE TABLE", "t") EXCEPT
                           !.columns = GoodColumns])

InsertText(values) ==
    /\ TotalRows(database) + Len(values) <= MaxRows
    /\ TextExecuted(<<>>, [Statement("INSERT INTO", "t") EXCEPT
                              !.values = values])

\* UPDATE t SET tag = 'z' [WHERE where_str]
UpdateText(where_str) ==
    TextExecuted(where_str,
        [Statement("UPDATE", "t") EXCEPT
            !.set_values = [c \in {"tag"} |-> StrV("z")],
            !.where_clause = _parse_where_clause(where_str)])

\* DELETE FROM t [WHERE where_str]
DeleteText(where_str) ==
    TextExecuted(where_str,
        [Statement("DELETE FROM", "t") EXCEPT
            !.where_clause = _parse_where_clause(where_str)])

NextWhere ==
    \/ CreateText
    \/ \E values \in WhereInsertValues : InsertText(values)
    \/ \E where_str \in WhereTexts : UpdateText(where_str)
    \/ \E where_str \in WhereTexts : DeleteText(where_str)

SpecWhere == InitWhere /\ [][NextWhere]_vars

----------------------------------------------------------------------------
(* The specification of literals: rows inserted into t(id INT PRIMARY KEY, *)
(* tag TEXT, ok BOOLEAN) with literals of every kind, and SELECTs that     *)
(* filter one column by a literal.                                         *)

LiteralColumns ==
    << ColumnDef("id", "INT", TRUE), ColumnDef("tag", "TEXT", FALSE),
       ColumnDef("ok", "BOOLEAN", FALSE) >>

\* VALUES (i | 'i', 'a' | 1, TRUE | 1): integers, quoted texts and booleans
LiteralRows ==
    {<<ValuesOnly(<<a, b, c>>)>> :
        a \in {IntV(i) : i \in 1..MaxVal} \cup {StrV("1")},
        b \in {StrV("a"), IntV(1)},
        c \in {BoolV(TRUE), IntV(1)}}

\* WHERE c = v for a column and a literal of the rows above
LiteralWheres ==
    {<< <<c, v>> >> :
        c \in {"id", "tag", "ok"},
        v \in {IntV(1), StrV("1"), StrV("a"), BoolV(TRUE)}}

NextLiterals ==
    \/ ExecCreateTable("t", LiteralColumns, TRUE)
    \/ \E values \in LiteralRows : ExecInsert("t", values, TRUE)
    \/ \E where_clause \in LiteralWheres : ExecSelect("t", where_clause)
    \/ \E where_clause \in StatementWheres : ExecDelete("t", where_clause, TRUE)

SpecLiterals == InitDB /\ [][NextLiterals]_vars

----------------------------------------------------------------------------
(* The join specification: tables A(x INT, y INT) and B(x INT, y INT) on a *)
(* Database, rows inserted into either, and two-table SELECTs.             *)

XYColumns ==
    << [ColumnDef("x", "INT", FALSE) EXCEPT !.nullable = TRUE],
       [ColumnDef("y", "INT", FALSE) EXCEPT !.nullable = TRUE] >>

\* CREATE TABLE A (x INT, y INT); CREATE TABLE B (x INT, y INT)
JoinDatabase ==
    execute_query(
        execute_query(Database(StorageEngine),
                      [Statement("CREATE TABLE", "A") EXCEPT
                          !.columns = XYColumns], TRUE).db,
        [Statement("CREATE TABLE", "B") EXCEPT !.columns = XYColumns],
        TRUE).db

\* ON A.x = B.y | ON B.y = A.x | no condition
JoinConditions ==
    {[left_table |-> "A", left_column |-> "x",
      right_table |-> "B", right_column |-> "y"],
     [left_table |-> "B", left_column |-> "y",
      right_table |-> "A", right_column |-> "x"],
     NoJoin}

InitJoin ==
    /\ table = Table("users", UsersColumns, <<"id", "email">>)
    /\ last = NoCall
    /\ database = JoinDatabase
    /\ answer = NoStatement
    /\ io_faulted = FALSE
    /\ select_text = NoText
    /\ parsed = NotParsed
    /\ StorageIdle
    /\ ThreadsIdle

\* INSERT INTO n VALUES (i, j)
InsertXY(n, i, j) ==
    /\ Len(database.tables[n].rows) < MaxRows
    /\ Execute([Statement("INSERT INTO", n) EXCEPT
                   !.values = <<ValuesOnly(<<IntV(i), IntV(j)>>)>>], TRUE)

NextJoin ==
    \/ \E n \in {"A", "B"}, i \in 1..MaxVal, j \in 1..MaxVal : InsertXY(n, i, j)
    \/ \E condition \in JoinConditions :
          ExecJoin("A", "B", condition) \/ ExecJoin("B", "A", condition)

SpecJoin == InitJoin /\ [][NextJoin]_vars

\* ON n.x = m.y
OnXY(n, m) ==
    [left_table |-> n, left_column |-> "x",
     right_table |-> m, right_column |-> "y"]

\* The same tables, joined in every pairing, a table with itself included
NextSelfJoin ==
    \/ \E n \in {"A", "B"}, i \in 1..MaxVal, j \in 1..MaxVal : InsertXY(n, i, j)
    \/ \E n \in {"A", "B"}, m \in {"A", "B"} :
          \E condition \in {OnXY(n, m), NoJoin} : ExecJoin(n, m, condition)

SpecSelfJoin == InitJoin /\ [][NextSelfJoin]_vars

\* WHERE x = i | WHERE A.x = i | WHERE z = i, the key of a condition written
\* as the pair of its table ("" when none is written) and its column
JoinWheres ==
    {<< <<Key(n, c), IntV(i)>> >> :
        n \in {"", "A"}, c \in {"x", "z"}, i \in 1..MaxVal}

\* SELECT * FROM n JOIN m [ON n.x = m.y] WHERE ...
ExecJoinWhere(n, m, condition, where_clause) ==
    Execute([Statement("SELECT", n) EXCEPT !.columns = AllJoined,
                                           !.join_table = m,
                                           !.join_condition = condition,
                                           !.where_clause = where_clause],
            TRUE)

\* The same tables, joined with a WHERE filter on the combined rows
NextJoinWhere ==
    \/ \E n \in {"A", "B"}, i \in 1..MaxVal, j \in 1..MaxVal : InsertXY(n, i, j)
    \/ \E condition \in {OnXY("A", "B"), NoJoin}, where_clause \in JoinWheres :
          ExecJoinWhere("A", "B", condition, where_clause)

SpecJoinWhere == InitJoin /\ [][NextJoinWhere]_vars

----------------------------------------------------------------------------
(* The parser specification: a SELECT ... JOIN text over identifiers of up *)
(* to MaxLen letters is parsed.                                            *)

InitParse ==
    /\ table = Table("users", UsersColumns, <<"id", "email">>)
    /\ last = NoCall
    /\ database = Database(StorageEngine)
    /\ answer = NoStatement
    /\ io_faulted = FALSE
    /\ select_text \in [A : Identifiers, B : Identifiers,
                        x : Identifiers, y : Identifiers]
    /\ parsed = NotParsed
    /\ StorageIdle
    /\ ThreadsIdle

\* parser.parse("SELECT * FROM A JOIN B ON A.x = B.y")
ParseSelect ==
    /\ ~parsed.done
    /\ parsed' = [done |-> TRUE,
                  query |-> _parse_select(
                                select_text.A, select_text.B,
                                on_text(select_text.A, select_text.x,
                                        select_text.B, select_text.y))]
    /\ UNCHANGED <<tvars, dbvars, select_text, svars, cvars>>

NextParse == ParseSelect

SpecParse == InitParse /\ [][NextParse]_vars

----------------------------------------------------------------------------
(* The storage-level specification: a caller issues save_table,            *)
(* delete_table, load_table, backup and restore calls one after the other  *)
(* on one backend, a StorageEngine with the json or the pickle format (the *)
(* storage of database) or a MemoryStorage, and changes the objects that   *)
(* load_table handed to it.                                                *)

MaxObjects == 8

Backends == {"json", "pickle", "memory"}

\* The rows of a saved table: none, or ids 1..MaxRows, the first email None,
\* the others a text
SavedRows ==
    {[i \in 1..k |-> [c \in {"id", "email"} |->
                        IF c = "id" THEN IntV(i)
                        ELSE IF i = 1 THEN NullV ELSE StrV("1")]] :
        k \in {0, MaxRows}}

\* The table_data of a users-like table with the given rows
TableData(name, rows) ==
    [to_dict(Table(name, UsersColumns, <<"id", "email">>)) EXCEPT
        !.rows = rows]

\* What the storage holds: the content load_table returns for each listed
\* table
Holds(storage) ==
    [n \in list_tables(storage) |-> load_table(storage, n).data]

InitStorage ==
    /\ table = Table("users", UsersColumns, <<"id", "email">>)
    /\ last = NoCall
    /\ backend \in Backends
    /\ database = Database(StorageEngineWith(
                        IF backend = "memory" THEN "json" ELSE backend))
    /\ answer = NoStatement
    /\ io_faulted = FALSE
    /\ select_text = NoText
    /\ parsed = NotParsed
    /\ memory = MemoryStorage
    /\ heap = NoObjects
    /\ handles = NothingHeld
    /\ backup_dir = NoDirectory
    /\ snapshot = NoSnapshot
    /\ last_saved = NoFiles
    /\ returned = NoStorageCall
    /\ ThreadsIdle

Called(call, table_name, ret) ==
    returned' = [call |-> call, table_name |-> table_name, ret |-> ret]

\* storage.save_table(n, table_data) on the file backend
FileSave(n, rows) ==
    /\ backend # "memory"
    /\ LET r == save_table(database.storage, n, TableData(n, rows), TRUE)
       IN /\ database' = [database EXCEPT !.storage = r.storage]
          /\ last_saved' = With(last_saved, n, TableData(n, rows))
          /\ Called("save_table", n, r.ret)
    /\ snapshot' = [snapshot EXCEPT !.changed = @ \cup {n}]
    /\ UNCHANGED <<tvars, answer, io_faulted, pvars, backend, memory, heap,
                   handles, backup_dir, cvars>>

\* storage.delete_table(n) on the file backend
FileDelete(n) ==
    /\ backend # "memory"
    /\ LET r == delete_table(database.storage, n, TRUE)
       IN /\ database' = [database EXCEPT !.storage = r.storage]
          /\ last_saved' = Without(last_saved, n)
          /\ Called("delete_table", n, r.ret)
          /\ snapshot' = [snapshot EXCEPT !.changed =
                            IF r.ret THEN @ \cup {n} ELSE @]
    /\ UNCHANGED <<tvars, answer, io_faulted, pvars, backend, memory, heap,
                   handles, backup_dir, cvars>>

\* database.backup(p)
Backup ==
    /\ backend # "memory"
    /\ LET r == backup(database, backup_dir)
       IN /\ backup_dir' = r.backup_dir
          /\ snapshot' = [taken |-> TRUE, tables |-> Holds(database.storage),
                          changed |-> {}]
          /\ Called("backup", "", r.ret)
    /\ UNCHANGED <<tvars, dbvars, pvars, backend, memory, heap, handles,
                   last_saved, cvars>>

\* database.restore(p); what was last saved is from then on what the backup
\* held
Restore ==
    /\ backend # "memory"
    /\ LET r == restore(database, backup_dir)
       IN /\ database' = r.db
          /\ last_saved' = IF r.ret THEN snapshot.tables ELSE last_saved
          /\ Called("restore", "", r.ret)
    /\ UNCHANGED <<tvars, answer, io_faulted, pvars, backend, memory, heap,
                   handles, backup_dir, snapshot, cvars>>

\* The caller builds a table_data dict and hands it to
\* memory_storage.save_table(n, table_data)
MemorySave(n, rows) ==
    /\ backend = "memory"
    /\ Len(heap) + 3 <= MaxObjects
    /\ LET built == NewTableData(heap, n, rows)
           r == MemoryStorage_save_table(memory, built.heap, n, built.ref)
       IN /\ memory' = r.memory
          /\ heap' = r.heap
          /\ handles' = [handles EXCEPT !.saved = built.ref]
          /\ last_saved' = With(last_saved, n, Content(built.heap, built.ref))
          /\ Called("save_table", n, r.ret)
    /\ UNCHANGED <<tvars, dbvars, pvars, backend, backup_dir, snapshot, cvars>>

\* memory_storage.delete_table(n)
MemoryDelete(n) ==
    /\ backend = "memory"
    /\ LET r == MemoryStorage_delete_table(memory, n)
       IN /\ memory' = r.memory
          /\ last_saved' = Without(last_saved, n)
          /\ Called("delete_table", n, r.ret)
    /\ UNCHANGED <<tvars, dbvars, pvars, backend, heap, handles, backup_dir,
                   snapshot, cvars>>

\* loaded = memory_storage.load_table(n)
MemoryLoad(n) ==
    /\ backend = "memory"
    /\ Len(heap) + 2 <= MaxObjects
    /\ LET r == MemoryStorage_load_table(memory, heap, n)
       IN /\ heap' = r.heap
          /\ handles' = [handles EXCEPT !.loaded = r.ref]
          /\ Called("load_table", n, r.found)
    /\ UNCHANGED <<tvars, dbvars, pvars, backend, memory, backup_dir,
                   snapshot, last_saved, cvars>>

\* loaded["rows"].append(row)
AppendToLoaded(row) ==
    /\ handles.loaded # 0
    /\ Len(heap[heap[handles.loaded].rows].items) <= MaxRows
    /\ heap' = [heap EXCEPT ![heap[handles.loaded].rows].items =
                                Append(@, row)]
    /\ Called("append", "", TRUE)
    /\ UNCHANGED <<tvars, dbvars, pvars, backend, memory, handles,
                   backup_dir, snapshot, last_saved, cvars>>

\* loaded["rows"].clear()
ClearLoaded ==
    /\ handles.loaded # 0
    /\ heap' = [heap EXCEPT ![heap[handles.loaded].rows].items = << >>]
    /\ Called("clear", "", TRUE)
    /\ UNCHANGED <<tvars, dbvars, pvars, backend, memory, handles,
                   backup_dir, snapshot, last_saved, cvars>>

\* loaded["name"] = "renamed"
RenameLoaded ==
    /\ handles.loaded # 0
    /\ heap' = [heap EXCEPT ![handles.loaded].name = "renamed"]
    /\ Called("rename", "", TRUE)
    /\ UNCHANGED <<tvars, dbvars, pvars, backend, memory, handles,
                   backup_dir, snapshot, last_saved, cvars>>

NextStorage ==
    \/ \E n \in TableNames, rows \in SavedRows : FileSave(n, rows)
    \/ \E n \in TableNames : FileDelete(n)
    \/ Backup
    \/ Restore
    \/ \E n \in TableNames, rows \in SavedRows : MemorySave(n, rows)
    \/ \E n \in TableNames : MemoryDelete(n)
    \/ \E n \in TableNames : MemoryLoad(n)
    \/ \E row \in {[c \in {"id", "email"} |-> NullV]} : AppendToLoaded(row)
    \/ ClearLoaded
    \/ RenameLoaded

SpecStorage == InitStorage /\ [][NextStorage]_vars

----------------------------------------------------------------------------
(* The specification of a caller that keeps the table_data it saved: a     *)
(* caller of a MemoryStorage saves, deletes and loads tables and changes   *)
(* the dict it handed to save_table, as a live Table does whose to_dict()  *)
(* holds the table's own row list.                                         *)

InitCaller == InitStorage /\ backend = "memory"

\* table_data["rows"].append(row), table_data the dict last handed to
\* save_table
AppendToSaved(row) ==
    /\ handles.saved # 0
    /\ Len(heap[heap[handles.saved].rows].items) <= MaxRows
    /\ heap' = [heap EXCEPT ![heap[handles.saved].rows].items =
                                Append(@, row)]
    /\ Called("append", "", TRUE)
    /\ UNCHANGED <<tvars, dbvars, pvars, backend, memory, handles,
                   backup_dir, snapshot, last_saved, cvars>>

\* table_data["name"] = "renamed"
RenameSaved ==
    /\ handles.saved # 0
    /\ heap' = [heap EXCEPT ![handles.saved].name = "renamed"]
    /\ Called("rename", "", TRUE)
    /\ UNCHANGED <<tvars, dbvars, pvars, backend, memory, handles,
                   backup_dir, snapshot, last_saved, cvars>>

NextCaller ==
    \/ \E n \in TableNames, rows \in SavedRows : MemorySave(n, rows)
    \/ \E n \in TableNames : MemoryDelete(n)
    \/ \E n \in TableNames : MemoryLoad(n)
    \/ \E row \in {[c \in {"id", "email"} |-> NullV]} : AppendToSaved(row)
    \/ RenameSaved

SpecCaller == InitCaller /\ [][NextCaller]_vars

----------------------------------------------------------------------------
(* The lock specification: MaxThreads threads each make one save_table,    *)
(* load_table or delete_table call on the StorageEngine of database.  A    *)
(* call is a sequence of steps, one per statement of the method; a thread  *)
(* may be preempted between any two of them.  A thread is [call,           *)
(* table_name, pc, is_new_table, table_count, ret]: pc is its position,    *)
(* table_count the value it read for the += 1 or -= 1 in progress.         *)

MaxThreads == 2

ThreadIds == 1..MaxThreads

StorageCalls == {"save_table", "load_table", "delete_table"}

Thread(call, table_name) ==
    [call |-> call, table_name |-> table_name, pc |-> "call",
     is_new_table |-> FALSE, table_count |-> 0, ret |-> FALSE]

\* Lock.acquire by a `with self._lock`: whether a thread may enter when the
\* lock has the given holder
_lock_acquire_Unguarded(holder) == TRUE

_lock_acquire(holder) == holder = 0

\* The positions between the acquire and the release of the lock
InsideLock ==
    {"write_file", "is_new_table", "read_count", "write_count", "set_entry",
     "read_file", "is_known", "unlink", "del_entry", "return"}

\* The engines the threads start on: an empty data directory, and one that
\* holds table "t"
StartEngines ==
    {StorageEngine,
     save_table(StorageEngine, "t", TableData("t", << >>), TRUE).storage}

InitLock ==
    /\ table = Table("users", UsersColumns, <<"id", "email">>)
    /\ last = NoCall
    /\ \E engine \in StartEngines : database = Database(engine)
    /\ answer = NoStatement
    /\ io_faulted = FALSE
    /\ select_text = NoText
    /\ parsed = NotParsed
    /\ StorageIdle
    /\ threads \in [ThreadIds -> {Thread(c, n) : c \in StorageCalls,
                                                n \in TableNames}]
    /\ lock = 0

Moves(th, next) ==
    threads' = [threads EXCEPT ![th] = next]

Metadata == database.storage.metadata

\* with self._lock: the thread blocks until the lock is free
Acquire(th) ==
    /\ threads[th].pc = "call"
    /\ _lock_acquire(lock)
    /\ lock' = th
    /\ Moves(th, [threads[th] EXCEPT !.pc =
            CASE threads[th].call = "save_table" -> "write_file"
              [] threads[th].call = "load_table" -> "read_file"
              [] OTHER -> "is_known"])
    /\ UNCHANGED <<tvars, dbvars, pvars, svars>>

\* save_table: open(filename, "w") and json.dump
WriteFile(th) ==
    /\ threads[th].pc = "write_file"
    /\ database' = [database EXCEPT !.storage.files =
            With(@, threads[th].table_name,
                 json_dump(TableData(threads[th].table_name, << >>)))]
    /\ Moves(th, [threads[th] EXCEPT !.pc = "is_new_table"])
    /\ UNCHANGED <<tvars, answer, io_faulted, pvars, svars, lock>>

\* save_table: is_new_table = table_name not in self.metadata["tables"]
IsNewTable(th) ==
    /\ threads[th].pc = "is_new_table"
    /\ LET is_new_table == threads[th].table_name \notin DOMAIN Metadata.tables
       IN Moves(th, [threads[th] EXCEPT
                !.is_new_table = is_new_table,
                !.pc = IF is_new_table THEN "read_count" ELSE "set_entry"])
    /\ UNCHANGED <<tvars, dbvars, pvars, svars, lock>>

\* The read of self.metadata["table_count"] in a += 1 or a -= 1
ReadCount(th) ==
    /\ threads[th].pc = "read_count"
    /\ Moves(th, [threads[th] EXCEPT !.table_count = Metadata.table_count,
                                     !.pc = "write_count"])
    /\ UNCHANGED <<tvars, dbvars, pvars, svars, lock>>

\* The store that ends the += 1 of save_table or the -= 1 of delete_table
WriteCount(th) ==
    /\ threads[th].pc = "write_count"
    /\ database' = [database EXCEPT !.storage.metadata.table_count =
            IF threads[th].call = "save_table"
            THEN threads[th].table_count + 1
            ELSE threads[th].table_count - 1]
    /\ Moves(th, [threads[th] EXCEPT !.pc =
            IF threads[th].call = "save_table" THEN "set_entry" ELSE "return",
                                     !.ret = threads[th].call # "save_table"])
    /\ UNCHANGED <<tvars, answer, io_faulted, pvars, svars, lock>>

\* save_table: self.metadata["tables"][table_name] = {...}, _save_metadata()
SetEntry(th) ==
    /\ threads[th].pc = "set_entry"
    /\ database' = [database EXCEPT !.storage.metadata.tables =
            With(@, threads[th].table_name, [row_count |-> 0])]
    /\ Moves(th, [threads[th] EXCEPT !.pc = "return", !.ret = TRUE])
    /\ UNCHANGED <<tvars, answer, io_faulted, pvars, svars, lock>>

\* load_table: the table is looked up and its file read
ReadFile(th) ==
    /\ threads[th].pc = "read_file"
    /\ Moves(th, [threads[th] EXCEPT
            !.pc = "return",
            !.ret = load_table(database.storage, threads[th].table_name).found])
    /\ UNCHANGED <<tvars, dbvars, pvars, svars, lock>>

\* delete_table: if table_name not in self.metadata["tables"]: return False
IsKnown(th) ==
    /\ threads[th].pc = "is_known"
    /\ Moves(th, [threads[th] EXCEPT
            !.pc = IF threads[th].table_name \in DOMAIN Metadata.tables
                   THEN "unlink" ELSE "return",
            !.ret = FALSE])
    /\ UNCHANGED <<tvars, dbvars, pvars, svars, lock>>

\* delete_table: if filename.exists(): filename.unlink()
Unlink(th) ==
    /\ threads[th].pc = "unlink"
    /\ database' = [database EXCEPT !.storage.files =
            Without(@, threads[th].table_name)]
    /\ Moves(th, [threads[th] EXCEPT !.pc = "del_entry"])
    /\ UNCHANGED <<tvars, answer, io_faulted, pvars, svars, lock>>

\* delete_table: del self.metadata["tables"][table_name]
DelEntry(th) ==
    /\ threads[th].pc = "del_entry"
    /\ database' = [database EXCEPT !.storage.metadata.tables =
            Without(@, threads[th].table_name)]
    /\ Moves(th, [threads[th] EXCEPT !.pc = "read_count"])
    /\ UNCHANGED <<tvars, answer, io_faulted, pvars, svars, lock>>

\* The return leaves the with block: the lock is released
Release(th) ==
    /\ threads[th].pc = "return"
    /\ lock' = 0
    /\ Moves(th, [threads[th] EXCEPT !.pc = "done"])
    /\ UNCHANGED <<tvars, dbvars, pvars, svars>>

NextLock ==
    \E th \in ThreadIds :
        \/ Acquire(th)
        \/ WriteFile(th)
        \/ IsNewTable(th)
        \/ ReadCount(th)
        \/ WriteCount(th)
        \/ SetEntry(th)
        \/ ReadFile(th)
        \/ IsKnown(th)
        \/ Unlink(th)
        \/ DelEntry(th)
        \/ Release(th)

SpecLock == InitLock /\ [][NextLock]_vars

----------------------------------------------------------------------------
(* The statistics specification: next to the MaxThreads threads of the     *)
(* lock specification one more thread calls get_database_stats or          *)
(* list_tables, which take no lock.  A reader is [call, pc, entries,       *)
(* table_count]: entries is the number of per-table metadata entries it    *)
(* saw, table_count the value of metadata["table_count"] at its read.      *)

ReaderCalls == {"get_database_stats", "list_tables"}

ReaderIds == {MaxThreads + 1}

Reader(call) ==
    [call |-> call,
     pc |-> IF call = "get_database_stats" THEN "for_tables" ELSE "keys",
     entries |-> 0, table_count |-> 0]

InitStats ==
    /\ table = Table("users", UsersColumns, <<"id", "email">>)
    /\ last = NoCall
    /\ \E engine \in StartEngines : database = Database(engine)
    /\ answer = NoStatement
    /\ io_faulted = FALSE
    /\ select_text = NoText
    /\ parsed = NotParsed
    /\ StorageIdle
    /\ \E calls \in [ThreadIds -> StorageCalls],
          names \in [ThreadIds -> TableNames],
          reading \in ReaderCalls :
            threads = [th \in 1..(MaxThreads + 1) |->
                          IF th \in ThreadIds
                          THEN Thread(calls[th], names[th])
                          ELSE Reader(reading)]
    /\ lock = 0

\* get_database_stats: for table_info in self.metadata["tables"].values()
SumTables(th) ==
    /\ threads[th].pc = "for_tables"
    /\ Moves(th, [threads[th] EXCEPT
            !.entries = Cardinality(DOMAIN Metadata.tables),
            !.pc = "table_count"])
    /\ UNCHANGED <<tvars, dbvars, pvars, svars, lock>>

\* get_database_stats: "table_count": self.metadata["table_count"]
ReadTableCount(th) ==
    /\ threads[th].pc = "table_count"
    /\ Moves(th, [threads[th] EXCEPT
            !.table_count = Metadata.table_count, !.pc = "done"])
    /\ UNCHANGED <<tvars, dbvars, pvars, svars, lock>>

\* list_tables: list(self.metadata["tables"].keys()); table_count is the
\* count the metadata holds at that moment
ListKeys(th) ==
    /\ threads[th].pc = "keys"
    /\ Moves(th, [threads[th] EXCEPT
            !.entries = Cardinality(DOMAIN Metadata.tables),
            !.table_count = Metadata.table_count, !.pc = "done"])
    /\ UNCHANGED <<tvars, dbvars, pvars, svars, lock>>

NextStats ==
    \/ NextLock
    \/ \E th \in ReaderIds :
        \/ SumTables(th)
        \/ ReadTableCount(th)
        \/ ListKeys(th)

SpecStats == InitStats /\ [][NextStats]_vars

----------------------------------------------------------------------------
(* The compaction specification: one thread calls compact_database while   *)
(* a caller saves and deletes tables on the same StorageEngine.  The       *)
(* save_table, load_table and delete_table calls run under the lock, so    *)
(* each is one step; compact_database takes no lock of its own and may be  *)
(* preempted between any two of the calls it makes.  The compacting thread *)
(* is [call, pc, table_names, table_data, ret]: table_names are the names  *)
(* still to compact, table_data what load_table returned for the first.    *)

Compacting ==
    [call |-> "compact_database", pc |-> "list", table_names |-> << >>,
     table_data |-> [found |-> FALSE, data |-> << >>], ret |-> FALSE]

InitCompact ==
    /\ table = Table("users", UsersColumns, <<"id", "email">>)
    /\ last = NoCall
    /\ \E format \in {"json", "pickle"} :
          /\ backend = format
          /\ database = Database(StorageEngineWith(format))
    /\ answer = NoStatement
    /\ io_faulted = FALSE
    /\ select_text = NoText
    /\ parsed = NotParsed
    /\ memory = MemoryStorage
    /\ heap = NoObjects
    /\ handles = NothingHeld
    /\ backup_dir = NoDirectory
    /\ snapshot = NoSnapshot
    /\ last_saved = NoFiles
    /\ returned = NoStorageCall
    /\ threads = << >>
    /\ lock = 0

\* A thread calls compact_database()
StartCompact ==
    /\ threads = << >>
    /\ threads' = << Compacting >>
    /\ UNCHANGED <<tvars, dbvars, pvars, svars, lock>>

\* table_names = list(self.metadata["tables"].keys()), read without the
\* lock; the order is that of the dict
ListNames ==
    /\ threads # << >>
    /\ threads[1].pc = "list"
    /\ \E order \in Orders(list_tables(database.storage)) :
          Moves(1, [threads[1] EXCEPT
                !.table_names = order,
                !.pc = IF order = << >> THEN "return" ELSE "load"])
    /\ UNCHANGED <<tvars, dbvars, pvars, svars, lock>>

\* table_data = self.load_table(table_name); if table_data: ...
CompactLoad ==
    /\ threads # << >>
    /\ threads[1].pc = "load"
    /\ LET r == load_table(database.storage, Head(threads[1].table_names))
       IN Moves(1, [threads[1] EXCEPT
                !.table_data = r,
                !.table_names = IF r.found THEN @ ELSE Tail(@),
                !.pc = IF r.found THEN "save"
                       ELSE IF Tail(threads[1].table_names) = << >>
                            THEN "return" ELSE "load"])
    /\ UNCHANGED <<tvars, dbvars, pvars, svars, lock>>

\* self.save_table(table_name, table_data)
CompactSave ==
    /\ threads # << >>
    /\ threads[1].pc = "save"
    /\ LET r == save_table(database.storage, Head(threads[1].table_names),
                           threads[1].table_data.data, TRUE)
       IN database' = [database EXCEPT !.storage = r.storage]
    /\ Moves(1, [threads[1] EXCEPT
            !.table_data = [found |-> FALSE, data |-> << >>],
            !.table_names = Tail(@),
            !.pc = IF Tail(threads[1].table_names) = << >>
                   THEN "return" ELSE "load"])
    /\ UNCHANGED <<tvars, answer, io_faulted, pvars, svars, lock>>

\* return True
CompactReturn ==
    /\ threads # << >>
    /\ threads[1].pc = "return"
    /\ Moves(1, [threads[1] EXCEPT !.pc = "done", !.ret = TRUE])
    /\ UNCHANGED <<tvars, dbvars, pvars, svars, lock>>

NextCompact ==
    \/ \E n \in TableNames, rows \in SavedRows : FileSave(n, rows)
    \/ \E n \in TableNames : FileDelete(n)
    \/ StartCompact
    \/ ListNames
    \/ CompactLoad
    \/ CompactSave
    \/ CompactReturn

SpecCompact == InitCompact /\ [][NextCompact]_vars

----------------------------------------------------------------------------
(* The termination specification: MaxThreads threads each make one         *)
(* save_table, load_table, delete_table, compact_database or close call on *)
(* one StorageEngine.  save_table, load_table and delete_table run as in   *)
(* the lock specification, and any statement inside their try block may    *)
(* raise; compact_database lists the tables without the lock and calls     *)
(* load_table and save_table for each, every such call taking the lock for *)
(* itself; close runs _save_metadata under the lock and lets its exception *)
(* pass.  A thread that made a compact_database call carries table_names,  *)
(* the names still to compact, and table_data, what load_table returned.   *)

EngineCalls == StorageCalls \cup {"compact_database", "close"}

\* The exit of a `with self._lock` block by the thread holding the lock:
\* the lock is kept when the block raised
_lock_release_UnlessRaised(holder, raised) == IF raised THEN holder ELSE 0

\* The exit of a `with self._lock` block: the lock is released whether the
\* block returned or raised
_lock_release(holder, raised) == 0

Caller(call, table_name) ==
    IF call = "compact_database"
    THEN [call |-> call, table_name |-> "", pc |-> "list",
          is_new_table |-> FALSE, table_count |-> 0, ret |-> FALSE,
          table_names |-> << >>,
          table_data |-> [found |-> FALSE, data |-> << >>]]
    ELSE IF call = "close"
    THEN [Thread(call, "") EXCEPT !.pc = "close"]
    ELSE Thread(call, table_name)

InitReturn ==
    /\ table = Table("users", UsersColumns, <<"id", "email">>)
    /\ last = NoCall
    /\ \E engine \in StartEngines : database = Database(engine)
    /\ answer = NoStatement
    /\ io_faulted = FALSE
    /\ select_text = NoText
    /\ parsed = NotParsed
    /\ StorageIdle
    /\ \E calls \in [ThreadIds -> EngineCalls] :
          threads = [th \in ThreadIds |-> Caller(calls[th], "t")]
    /\ lock = 0

\* A statement inside the try block of save_table, load_table or
\* delete_table raises: the except branch prints and returns False (None)
Throws(th) ==
    /\ threads[th].call \in StorageCalls
    /\ threads[th].pc \in InsideLock \ {"return"}
    /\ Moves(th, [threads[th] EXCEPT !.pc = "return", !.ret = FALSE])
    /\ UNCHANGED <<tvars, dbvars, pvars, svars, lock>>

\* The return of save_table, load_table or delete_table leaves the with
\* block
Leaves(th) ==
    /\ threads[th].call \in StorageCalls
    /\ threads[th].pc = "return"
    /\ lock' = _lock_release(th, FALSE)
    /\ Moves(th, [threads[th] EXCEPT !.pc = "done"])
    /\ UNCHANGED <<tvars, dbvars, pvars, svars>>

\* compact_database: table_names = list(self.metadata["tables"].keys())
ListTableNames(th) ==
    /\ threads[th].pc = "list"
    /\ \E order \in Orders(list_tables(database.storage)) :
          Moves(th, [threads[th] EXCEPT
                !.table_names = order,
                !.pc = IF order = << >> THEN "compacted" ELSE "load_table"])
    /\ UNCHANGED <<tvars, dbvars, pvars, svars, lock>>

\* The `with self._lock` of the load_table or save_table call that
\* compact_database makes, and of close
Enters(th) ==
    /\ threads[th].pc \in {"load_table", "save_table", "close"}
    /\ _lock_acquire(lock)
    /\ lock' = th
    /\ Moves(th, [threads[th] EXCEPT !.pc =
            CASE threads[th].pc = "load_table" -> "loading"
              [] threads[th].pc = "save_table" -> "saving"
              [] OTHER -> "closing"])
    /\ UNCHANGED <<tvars, dbvars, pvars, svars>>

\* compact_database: table_data = self.load_table(table_name), from the
\* body of load_table to its return or its except branch; if table_data:
Loads(th) ==
    /\ threads[th].pc = "loading"
    /\ \E raised \in BOOLEAN :
          LET r == IF raised THEN [found |-> FALSE, data |-> << >>]
                   ELSE load_table(database.storage,
                                   Head(threads[th].table_names))
          IN Moves(th, [threads[th] EXCEPT
                !.table_data = r,
                !.table_names = IF r.found THEN @ ELSE Tail(@),
                !.pc = IF r.found THEN "save_table"
                       ELSE IF Tail(threads[th].table_names) = << >>
                            THEN "compacted" ELSE "load_table"])
    /\ lock' = _lock_release(th, FALSE)
    /\ UNCHANGED <<tvars, dbvars, pvars, svars>>

\* compact_database: self.save_table(table_name, table_data), from the
\* body of save_table to its return or its except branch
Saves(th) ==
    /\ threads[th].pc = "saving"
    /\ \E io_ok \in BOOLEAN :
          LET r == save_table(database.storage, Head(threads[th].table_names),
                              threads[th].table_data.data, io_ok)
          IN database' = [database EXCEPT !.storage = r.storage]
    /\ Moves(th, [threads[th] EXCEPT
            !.table_data = [found |-> FALSE, data |-> << >>],
            !.table_names = Tail(@),
            !.pc = IF Tail(threads[th].table_names) = << >>
                   THEN "compacted" ELSE "load_table"])
    /\ lock' = _lock_release(th, FALSE)
    /\ UNCHANGED <<tvars, answer, io_faulted, pvars, svars>>

\* compact_database: return True
Compacted(th) ==
    /\ threads[th].pc = "compacted"
    /\ Moves(th, [threads[th] EXCEPT !.pc = "done", !.ret = TRUE])
    /\ UNCHANGED <<tvars, dbvars, pvars, svars, lock>>

\* close: self._save_metadata() under the lock; when it raises the
\* exception leaves the with block and the call
Closes(th) ==
    /\ threads[th].pc = "closing"
    /\ \E raised \in BOOLEAN :
          /\ lock' = _lock_release(th, raised)
          /\ Moves(th, [threads[th] EXCEPT !.pc = "done", !.ret = ~raised])
    /\ UNCHANGED <<tvars, dbvars, pvars, svars>>

Step(th) ==
    \/ Acquire(th)
    \/ WriteFile(th)
    \/ IsNewTable(th)
    \/ ReadCount(th)
    \/ WriteCount(th)
    \/ SetEntry(th)
    \/ ReadFile(th)
    \/ IsKnown(th)
    \/ Unlink(th)
    \/ DelEntry(th)
    \/ Throws(th)
    \/ Leaves(th)
    \/ ListTableNames(th)
    \/ Enters(th)
    \/ Loads(th)
    \/ Saves(th)
    \/ Compacted(th)
    \/ Closes(th)

NextReturn == \E th \in ThreadIds : Step(th)

SpecReturn == InitReturn /\ [][NextReturn]_vars

\* Fair scheduling: a thread that can take a step is not left waiting for
\* ever
SpecReturnFair == SpecReturn /\ \A th \in ThreadIds : WF_vars(Step(th))

----------------------------------------------------------------------------
(* The race specification: MaxThreads threads each call                    *)
(* execute_query("INSERT INTO t VALUES (key)") on one Database, with no    *)
(* serialization by the caller.  Table.insert is a sequence of steps       *)
(* (validate, len(self.rows), append, _update_indexes) and the save that   *)
(* follows takes the storage lock; a thread may be preempted between any   *)
(* two steps.  A thread is [call, key, pc, validated, validated_row,       *)
(* row_index, success].                                                    *)

KeyColumn == << Column("id", "INT", TRUE, FALSE, TRUE) >>

\* The Database the threads share: table t, empty or holding key 1, saved
RaceTables ==
    {Table("t", KeyColumn, <<"id">>),
     insert(Table("t", KeyColumn, <<"id">>),
            [c \in {"id"} |-> IntV(1)]).table}

RaceDatabase(t) ==
    Database(save_table(StorageEngine, "t", to_dict(t), TRUE).storage)

InsertThread(key) ==
    [call |-> "execute_query", key |-> key, pc |-> "call",
     validated |-> FALSE, validated_row |-> EmptyRow, row_index |-> 0,
     success |-> FALSE]

\* A list.append that stores at the position the caller computed
list_append_AtIndex(list, item, row_index) ==
    [i \in 1..(IF row_index > Len(list) THEN row_index ELSE Len(list)) |->
        IF i = row_index THEN item ELSE list[i]]

\* self.rows.append(validated_row)
list_append(list, item, row_index) == Append(list, item)

InitRace ==
    /\ table = Table("users", UsersColumns, <<"id", "email">>)
    /\ last = NoCall
    /\ \E t \in RaceTables : database = RaceDatabase(t)
    /\ answer = NoStatement
    /\ io_faulted = FALSE
    /\ select_text = NoText
    /\ parsed = NotParsed
    /\ StorageIdle
    /\ threads \in [ThreadIds -> {InsertThread(k) : k \in 1..MaxVal}]
    /\ lock = 0

\* execute_query up to the call of table.insert: the statement is parsed,
\* the table looked up, the values zipped with column_order
CallInsert(th) ==
    /\ threads[th].pc = "call"
    /\ Moves(th, [threads[th] EXCEPT !.pc =
            IF "t" \in DOMAIN database.tables THEN "validate" ELSE "done"])
    /\ UNCHANGED <<tvars, dbvars, pvars, svars, lock>>

\* insert: validated_row = self._validate_row(row); a ValueError ends the
\* call with a failed result
Validate(th) ==
    /\ threads[th].pc = "validate"
    /\ LET v == _validate_row(database.tables["t"],
                              Zip(database.tables["t"].column_order,
                                  << IntV(threads[th].key) >>))
       IN Moves(th, [threads[th] EXCEPT
                !.validated = v.ok,
                !.validated_row = v.row,
                !.pc = IF v.ok THEN "len" ELSE "done"])
    /\ UNCHANGED <<tvars, dbvars, pvars, svars, lock>>

\* insert: row_index = len(self.rows)
ReadLen(th) ==
    /\ threads[th].pc = "len"
    /\ Moves(th, [threads[th] EXCEPT
            !.row_index = Len(database.tables["t"].rows) + 1,
            !.pc = "append"])
    /\ UNCHANGED <<tvars, dbvars, pvars, svars, lock>>

\* insert: self.rows.append(validated_row)
AppendRow(th) ==
    /\ threads[th].pc = "append"
    /\ database' = [database EXCEPT !.tables["t"].rows =
            list_append(@, threads[th].validated_row, threads[th].row_index)]
    /\ Moves(th, [threads[th] EXCEPT !.pc = "index"])
    /\ UNCHANGED <<tvars, answer, io_faulted, pvars, svars, lock>>

\* insert: self._update_indexes(validated_row, row_index)
UpdateIndexes(th) ==
    /\ threads[th].pc = "index"
    /\ database' = [database EXCEPT !.tables["t"].indexes =
            _update_indexes(@, threads[th].validated_row,
                            threads[th].row_index)]
    /\ Moves(th, [threads[th] EXCEPT !.pc = "save"])
    /\ UNCHANGED <<tvars, answer, io_faulted, pvars, svars, lock>>

\* _save_table_to_storage: save_table waits for the storage lock
EnterSave(th) ==
    /\ threads[th].pc = "save"
    /\ _lock_acquire(lock)
    /\ lock' = th
    /\ Moves(th, [threads[th] EXCEPT !.pc = "saving"])
    /\ UNCHANGED <<tvars, dbvars, pvars, svars>>

\* save_table writes the table as it is now and releases the lock; the
\* INSERT answers success
SaveInserted(th) ==
    /\ threads[th].pc = "saving"
    /\ database' = [database EXCEPT !.storage =
            _save_table_to_storage(database, "t", TRUE).storage]
    /\ lock' = 0
    /\ Moves(th, [threads[th] EXCEPT !.pc = "done", !.success = TRUE])
    /\ UNCHANGED <<tvars, answer, io_faulted, pvars, svars>>

NextRace ==
    \E th \in ThreadIds :
        \/ CallInsert(th)
        \/ Validate(th)
        \/ ReadLen(th)
        \/ AppendRow(th)
        \/ UpdateIndexes(th)
        \/ EnterSave(th)
        \/ SaveInserted(th)

SpecRace == InitRace /\ [][NextRace]_vars

----------------------------------------------------------------------------
(* The call-history specification: the Table of the table-level            *)
(* specification, with last also recording what a delete returned, how     *)
(* many rows its filter matched, and whether every call so far succeeded.  *)

NoCallYet ==
    [op |-> "none", ok |-> TRUE, err |-> "", count |-> 0, matched |-> 0,
     clean |-> TRUE]

\* The number of rows a filter matches, -1 when evaluating it raises
Matched(t, where_clause) ==
    LET found == RowsToDelete(t, where_clause, 1, <<>>)
    IN IF found.ok THEN Len(found.val) ELSE -1

InitCalls ==
    /\ \E order \in Orders({"id", "email"}) :
           table = Table("users", UsersColumns, order)
    /\ last = NoCallYet
    /\ database = Database(StorageEngine)
    /\ answer = NoStatement
    /\ io_faulted = FALSE
    /\ select_text = NoText
    /\ parsed = NotParsed
    /\ StorageIdle
    /\ ThreadsIdle

\* The outcome r of a Table call becomes the state
TableCalled(op, r, count, matched) ==
    /\ table' = r.table
    /\ last' = [op |-> op, ok |-> r.ok, err |-> r.err, count |-> count,
                matched |-> matched, clean |-> last.clean /\ r.ok]
    /\ UNCHANGED <<dbvars, pvars, svars, cvars>>

InsertCall(row) ==
    /\ Len(table.rows) < MaxRows
    /\ TableCalled("insert", insert(table, row), 0, 0)

UpdateCall(set_values, where_clause) ==
    TableCalled("update", update(table, set_values, where_clause), 0,
                Matched(table, where_clause))

DeleteCall(where_clause) ==
    TableCalled("delete", delete(table, where_clause),
                delete(table, where_clause).count,
                Matched(table, where_clause))

NextCalls ==
    \/ \E row \in InputDicts : InsertCall(row)
    \/ \E set_values \in Assignments, where_clause \in {None_where} \cup Where1 :
              UpdateCall(set_values, where_clause)
    \/ \E where_clause \in {None_where} \cup Where1 : DeleteCall(where_clause)

SpecCalls == InitCalls /\ [][NextCalls]_vars

----------------------------------------------------------------------------
(* The refill specification: rows are inserted into an empty table, then   *)
(* every row is deleted, then the rows that had been inserted are inserted *)
(* again in the same order.  last is [op, ok, err, phase, inserted,        *)
(* reinserted]: inserted is the sequence of rows whose insert succeeded,   *)
(* reinserted how many of them have been inserted again.                   *)

NothingInserted ==
    [op |-> "none", ok |-> TRUE, err |-> "", phase |-> "fill",
     inserted |-> << >>, reinserted |-> 0]

InitRefill ==
    /\ \E order \in Orders({"id", "email"}) :
           table = Table("users", UsersColumns, order)
    /\ last = NothingInserted
    /\ database = Database(StorageEngine)
    /\ answer = NoStatement
    /\ io_faulted = FALSE
    /\ select_text = NoText
    /\ parsed = NotParsed
    /\ StorageIdle
    /\ ThreadsIdle

\* table.insert(row) while the table is being filled
Fill(row) ==
    /\ last.phase = "fill"
    /\ Len(table.rows) < MaxRows
    /\ LET r == insert(table, row)
       IN /\ table' = r.table
          /\ last' = [last EXCEPT
                !.op = "insert", !.ok = r.ok, !.err = r.err,
                !.inserted = IF r.ok THEN Append(@, row) ELSE @]
    /\ UNCHANGED <<dbvars, pvars, svars, cvars>>

\* table.delete() with no filter
DeleteAll ==
    /\ last.phase = "fill"
    /\ LET r == delete(table, None_where)
       IN /\ table' = r.table
          /\ last' = [last EXCEPT
                !.op = "delete", !.ok = r.ok, !.err = r.err,
                !.phase = "refill"]
    /\ UNCHANGED <<dbvars, pvars, svars, cvars>>

\* table.insert of the next row of those inserted before
Reinsert ==
    /\ last.phase = "refill"
    /\ last.reinserted < Len(last.inserted)
    /\ LET r == insert(table, last.inserted[last.reinserted + 1])
       IN /\ table' = r.table
          /\ last' = [last EXCEPT
                !.op = "insert", !.ok = @ /\ r.ok, !.err = r.err,
                !.reinserted = @ + 1]
    /\ UNCHANGED <<dbvars, pvars, svars, cvars>>

NextRefill ==
    \/ \E row \in InputDicts : Fill(row)
    \/ DeleteAll
    \/ Reinsert

SpecRefill == InitRefill /\ [][NextRefill]_vars

----------------------------------------------------------------------------
(* The specification of modifying calls: one Table driven by insert,       *)
(* update and delete calls; last holds the arguments of the latest update  *)
(* or delete and what it returned.                                         *)

NothingModified ==
    [op |-> "none", ok |-> TRUE, err |-> "", count |-> 0,
     set_values |-> EmptyRow, where_clause |-> None_where]

\* The rows to insert: an id and an email, None or an int
ModifyRows ==
    {[c \in {"id", "email"} |-> IF c = "id" THEN IntV(i) ELSE e] :
        i \in 1..MaxVal, e \in EmailInputs}

\* The assignments of an update: none, one column, or an undeclared column
ModifyAssignments ==
    {EmptyRow,
     [c \in {"id"} |-> StrV("a")],
     [c \in {"id"} |-> IntV(1)],
     [c \in {"email"} |-> NullV],
     [c \in {"email"} |-> IntV(1)],
     [c \in {"bogus"} |-> NullV]}

\* The filters: absent, one condition, or an undeclared column
ModifyWheres ==
    {None_where,
     << <<"id", IntV(1)>> >>,
     << <<"email", NullV>> >>,
     << <<"email", StrV("1")>> >>,
     << <<"bogus", NullV>> >>}

InitModify ==
    /\ \E order \in Orders({"id", "email"}) :
           table = Table("users", UsersColumns, order)
    /\ last = NothingModified
    /\ database = Database(StorageEngine)
    /\ answer = NoStatement
    /\ io_faulted = FALSE
    /\ select_text = NoText
    /\ parsed = NotParsed
    /\ StorageIdle
    /\ ThreadsIdle

\* The outcome r of a Table call with its arguments becomes the state
TableModified(op, r, set_values, where_clause) ==
    /\ table' = r.table
    /\ last' = [op |-> op, ok |-> r.ok, err |-> r.err, count |-> r.count,
                set_values |-> set_values, where_clause |-> where_clause]
    /\ UNCHANGED <<dbvars, pvars, svars, cvars>>

InsertRow(row) ==
    /\ Len(table.rows) < MaxRows
    /\ LET r == insert(table, row)
       IN TableModified("insert",
              [ok |-> r.ok, err |-> r.err, table |-> r.table, count |-> 0],
              EmptyRow, None_where)

UpdateRows(set_values, where_clause) ==
    TableModified("update", update(table, set_values, where_clause),
                  set_values, where_clause)

DeleteRows(where_clause) ==
    TableModified("delete", delete(table, where_clause), EmptyRow,
                  where_clause)

NextModify ==
    \/ \E row \in ModifyRows : InsertRow(row)
    \/ \E set_values \in ModifyAssignments, where_clause \in ModifyWheres :
              UpdateRows(set_values, where_clause)
    \/ \E where_clause \in ModifyWheres : DeleteRows(where_clause)

SpecModify == InitModify /\ [][NextModify]_vars

----------------------------------------------------------------------------
(* The typed specification: insert, update and delete calls on a table     *)
(* items(id INT PRIMARY KEY, tag TEXT, ok BOOLEAN NOT NULL), the primary   *)
(* key declared with nullable=True, with values of every kind, None and    *)
(* values the column cannot take included.                                 *)

ItemsColumns ==
    << Column("id", "INT", TRUE, FALSE, TRUE),
       Column("tag", "TEXT", FALSE, FALSE, TRUE),
       Column("ok", "BOOLEAN", FALSE, FALSE, FALSE) >>

\* The rows to insert: an id (None, an int, a numeral, a word), an ok
\* (None, a bool, a word for a bool) and a tag, an int or the key missing
TypedRows ==
    LET ids == {NullV, StrV("1"), StrV("a")} \cup {IntV(i) : i \in 2..MaxVal}
        oks == {NullV, BoolV(TRUE), StrV("no")}
    IN {[c \in {"id", "tag", "ok"} |->
            IF c = "id" THEN i ELSE IF c = "tag" THEN IntV(1) ELSE o] :
            i \in ids, o \in oks}
       \cup {[c \in {"id", "ok"} |-> IF c = "id" THEN i ELSE o] :
                i \in ids, o \in oks}

\* The assignments of an update
TypedAssignments ==
    {[c \in {"id"} |-> NullV],
     [c \in {"id"} |-> StrV("1")],
     [c \in {"tag"} |-> BoolV(TRUE)],
     [c \in {"ok"} |-> NullV],
     [c \in {"ok"} |-> StrV("a")],
     [c \in {"bogus"} |-> IntV(1)]}

\* The filters of an update or a delete
TypedWheres ==
    {None_where, << <<"id", IntV(1)>> >>}

InitTyped ==
    /\ table = Table("items", ItemsColumns, <<"id">>)
    /\ last = NothingModified
    /\ database = Database(StorageEngine)
    /\ answer = NoStatement
    /\ io_faulted = FALSE
    /\ select_text = NoText
    /\ parsed = NotParsed
    /\ StorageIdle
    /\ ThreadsIdle

NextTyped ==
    \/ \E row \in TypedRows : InsertRow(row)
    \/ \E set_values \in TypedAssignments, where_clause \in TypedWheres :
              UpdateRows(set_values, where_clause)
    \/ \E where_clause \in TypedWheres : DeleteRows(where_clause)

SpecTyped == InitTyped /\ [][NextTyped]_vars

----------------------------------------------------------------------------
(* Claims about the table-level specification *)

Positions(t) == 1..Len(t.rows)

\* C1: in every reachable state, failed calls included, no two rows hold
\* equal non-absent values in the primary-key column or in a unique column.
C1_NoDuplicateUniqueValues ==
    \A c \in table.unique_columns :
        \A i, j \in Positions(table) :
            (i < j /\ table.rows[i][c].t # "null")
                => table.rows[i][c] # table.rows[j][c]

\* C2: after every completed call, returned or raised, the index entry of
\* each non-absent value of a unique column is exactly the set of positions
\* of the rows holding it, and no entry exists for a value no row holds.
C2_IndexesMatchRows ==
    \A c \in table.unique_columns :
        /\ \A v \in DOMAIN table.indexes[c] :
              /\ Range(table.indexes[c][v])
                    = {i \in Positions(table) : table.rows[i][c] = v}
              /\ \E i \in Positions(table) : table.rows[i][c] = v
        /\ \A i \in Positions(table) :
              table.rows[i][c].t # "null"
                  => /\ table.rows[i][c] \in DOMAIN table.indexes[c]
                     /\ i \in Range(table.indexes[c][table.rows[i][c]])

\* The ways the claim lists for an insert to fail, told from the row and
\* the table's indexes
InsertMustFail(t, row) ==
    \/ \E c \in DOMAIN row : c \notin ColumnNames(t)
    \/ \E k \in DOMAIN t.columns :
          LET column == t.columns[k]
              value == Get(row, column.name)
          IN \/ value.t = "null" /\ ~column.nullable
             \/ column.data_type = "INT" /\ value.t = "str"
                    /\ ~IsIntText(value.s)
             \/ /\ column.name \in t.unique_columns
                /\ \E held \in DOMAIN t.indexes[column.name] :
                      \/ column.data_type = "INT" /\ value.t = "int"
                            /\ held.n = value.n
                      \/ column.data_type = "TEXT" /\ value.t = "int"
                            /\ held.s = ToString(value.n)

\* C7: an insert that fails (absent value for a non-nullable column,
\* duplicate primary-key or unique value, unknown column name, value that
\* cannot be coerced) raises and leaves the rows, their order and count and
\* every index as they were before the call.
C7_FailedInsertChangesNothing ==
    [][\A row \in InputDicts :
          Insert(row) =>
              /\ InsertMustFail(table, row) => ~last'.ok
              /\ ~last'.ok =>
                    /\ table' = table
                    /\ last'.err \in {"null", "duplicate", "unknown_column",
                                      "type"}]_vars

\* C7 witness: an insert of a duplicate key was rejected by a table that
\* holds rows
C7_Witness ==
    /\ last.op = "insert"
    /\ ~last.ok
    /\ last.err = "duplicate"
    /\ Len(table.rows) > 0

NamesUndeclared(t, where_clause) ==
    \E k \in DOMAIN where_clause : where_clause[k][1] \notin ColumnNames(t)

\* C10: a select whose filter names an undeclared column fails with an
\* unknown-column error, whatever rows the table holds, none included.
C10_UnknownFilterColumnFails ==
    [][\A where_clause \in Where1 \cup Where2 :
          (NamesUndeclared(table, where_clause) /\ Select(All, where_clause))
              => (~last'.ok /\ last'.err = "unknown_where")]_vars

----------------------------------------------------------------------------
(* Claims about the database-level specifications *)

KnownKeywords ==
    {"CREATE TABLE", "INSERT INTO", "SELECT", "UPDATE", "DELETE FROM",
     "DROP TABLE", "SHOW TABLES", "DESCRIBE", "DESC"}

\* The failures the claim lists, told from the statement and the database
\* before the call: a text no statement form matches, a table that is not
\* live, an inserted row or an assigned value the table must reject, a
\* filter on an undeclared column checked against a row
StatementMustFail(db, q) ==
    \/ q.query_type \notin KnownKeywords
    \/ /\ q.query_type \in {"INSERT INTO", "SELECT", "UPDATE", "DELETE FROM",
                            "DROP TABLE", "DESCRIBE"}
       /\ q.table_name \notin DOMAIN db.tables
    \/ /\ q.query_type = "SELECT"
       /\ q.join_table # ""
       /\ q.join_table \notin DOMAIN db.tables
    \/ /\ q.table_name \in DOMAIN db.tables
       /\ LET t == db.tables[q.table_name]
          IN \/ /\ q.query_type = "INSERT INTO"
                /\ InsertMustFail(t, Zip(t.column_order, q.values[1].list))
             \/ /\ q.query_type \in {"SELECT", "UPDATE", "DELETE FROM"}
                /\ q.join_table = ""
                /\ NamesUndeclared(t, q.where_clause)
                /\ t.rows # <<>>
             \/ /\ q.query_type = "UPDATE"
                /\ q.where_clause = None_where
                /\ t.rows # <<>>
                /\ \E k \in DOMAIN t.columns :
                      /\ ~t.columns[k].nullable
                      /\ t.columns[k].name \in DOMAIN q.set_values
                      /\ q.set_values[t.columns[k].name] = NullV

SameTables(before, after) ==
    /\ DOMAIN after.tables = DOMAIN before.tables
    /\ \A n \in DOMAIN before.tables :
          /\ after.tables[n].column_order = before.tables[n].column_order
          /\ after.tables[n].rows = before.tables[n].rows

C5_FailedCreateLeavesNoTable ==
    (answer.query.query_type = "CREATE TABLE" /\ answer.storage_failed)
        => /\ ~answer.r.success
           /\ answer.query.table_name \notin DOMAIN database.tables

\* C6: the statement SHOW TABLES always succeeds and returns one row per
\* live table with the table's name and current row count.
C6_ShowTablesListsLiveTables ==
    answer.query.query_type = "SHOW TABLES"
        => /\ answer.r.success
           /\ ~answer.r.data.none
           /\ Len(answer.r.data.rows) = Cardinality(DOMAIN database.tables)
           /\ Range(answer.r.data.rows)
                = {[table_name |-> n,
                    row_count |-> Len(database.tables[n].rows)] :
                        n \in DOMAIN database.tables}

\* The pairs of rows in left-major order
Pairs(left_rows, right_rows) ==
    [k \in 1..(Len(left_rows) * Len(right_rows)) |->
        [a |-> left_rows[((k - 1) \div Len(right_rows)) + 1],
         b |-> right_rows[((k - 1) % Len(right_rows)) + 1]]]

\* Whether a pair satisfies the condition, each side read from the row of
\* the table it names
Satisfies(q, pair) ==
    LET RowOf(table_name) ==
            IF table_name = q.table_name THEN pair.a ELSE pair.b
        c == q.join_condition
    IN c = NoJoin
          \/ RowOf(c.left_table)[c.left_column]
                = RowOf(c.right_table)[c.right_column]

ExpectedJoin(db, q) ==
    LET kept == SelectSeq(Pairs(db.tables[q.table_name].rows,
                                db.tables[q.join_table].rows),
                          LAMBDA pair : Satisfies(q, pair))
    IN [k \in DOMAIN kept |->
          combined_row(q.table_name, kept[k].a, q.join_table, kept[k].b)]

\* C8: a two-table SELECT returns one combined row for every pair of rows
\* that satisfies the join condition, read by the table each side names, and
\* no other row, in left-major order; without a condition it keeps every
\* pair.
C8_JoinKeepsMatchingPairs ==
    (answer.query.query_type = "SELECT" /\ answer.query.join_table # "")
        => /\ answer.r.success
           /\ answer.r.data.rows = ExpectedJoin(database, answer.query)

\* C9: for all identifiers A, B, x and y, the text
\* SELECT * FROM A JOIN B ON A.x = B.y parses to join_table = B and a join
\* condition with left column x and right column y.
C9_JoinTextParsesToItsIdentifiers ==
    parsed.done
        => /\ parsed.query.join_table = select_text.B
           /\ parsed.query.join_condition # <<>>
           /\ ~parsed.query.join_condition.empty
           /\ parsed.query.join_condition.left_column = select_text.x
           /\ parsed.query.join_condition.right_column = select_text.y

----------------------------------------------------------------------------
(* Claims about the storage backends *)

C12_StorageCallsDoNotOverlap ==
    /\ \A th \in DOMAIN threads, other \in DOMAIN threads :
            /\ threads[th].pc \in InsideLock
            /\ threads[other].pc \in InsideLock
            => th = other
    /\ LET target(th) == threads[th].table_name
       IN /\ threads # << >>
          /\ \A th \in DOMAIN threads :
                /\ threads[th].pc = "done"
                /\ threads[th].call = "save_table"
                /\ threads[th].is_new_table
          /\ \A th \in DOMAIN threads, other \in DOMAIN threads :
                target(th) = target(other) => th = other
          => /\ \A th \in DOMAIN threads : threads[th].ret
             /\ Metadata.table_count = Len(threads)
             /\ list_tables(database.storage)
                    = {target(th) : th \in DOMAIN threads}

\* Every thread saved a new table of its own and all of them are done
C12_Witness ==
    /\ threads # << >>
    /\ \A th \in DOMAIN threads :
            /\ threads[th].pc = "done"
            /\ threads[th].call = "save_table"
            /\ threads[th].is_new_table
    /\ \A th \in DOMAIN threads, other \in DOMAIN threads :
            threads[th].table_name = threads[other].table_name => th = other
    /\ Metadata.table_count = Len(threads)

\* C14: on the file backend, when a backup to p succeeded in storage state
\* S, then after any save_table and delete_table calls a restore from p
\* returns true, and afterwards the storage lists exactly the tables of S,
\* load_table returns for each the content it had in S, and the Database's
\* live tables are exactly those tables with those rows.
C14_RestoreBringsBackTheBackup ==
    (returned.call = "restore" /\ snapshot.taken) =>
        /\ returned.ret
        /\ list_tables(database.storage) = DOMAIN snapshot.tables
        /\ Holds(database.storage) = snapshot.tables
        /\ DOMAIN database.tables = DOMAIN snapshot.tables
        /\ \A n \in DOMAIN database.tables :
                database.tables[n] = from_dict(snapshot.tables[n])

\* A restore just returned true; since the backup, which held t with a row
\* and not u, both t and u had been saved or deleted
C14_Witness ==
    /\ returned.call = "restore"
    /\ returned.ret
    /\ snapshot.changed = {"t", "u"}
    /\ DOMAIN snapshot.tables = {"t"}
    /\ snapshot.tables["t"].rows # << >>
    /\ DOMAIN database.tables = {"t"}

\* C15: after a backup to p returned true, p holds the metadata file and
\* one table file per table the storage lists, and no other file, also
\* when p held an earlier backup taken before a table was dropped.
C15_BackupHoldsExactlyTheListedTables ==
    returned.call = "backup" /\ returned.ret =>
        /\ backup_dir.metadata_file # << >>
        /\ DOMAIN backup_dir.files = list_tables(database.storage)

\* What memory_storage.load_table(n) returns, as a value
LoadedContent(store, objects, n) ==
    LET r == MemoryStorage_load_table(store, objects, n)
    IN Content(r.heap, r.ref)

CallerChanges == {"append", "clear", "rename"}

\* C16: whatever the caller does to the value MemoryStorage.load_table
\* returned (appending to its rows, emptying them, changing a key of the
\* dict), a later load_table of any stored table returns what it returned
\* before the change.
C16_LoadedValueIsIndependent ==
    [][returned'.call \in CallerChanges =>
        /\ memory' = memory
        /\ \A n \in DOMAIN memory.tables :
                LoadedContent(memory', heap', n)
                    = LoadedContent(memory, heap, n)]_vars

\* The caller appended a row to what load_table("t") gave it: the object
\* it holds has more rows than a new load_table("t") returns
C16_Witness ==
    /\ returned.call = "append"
    /\ handles.loaded # 0
    /\ heap[handles.loaded].name = "t"
    /\ "t" \in DOMAIN memory.tables
    /\ Len(Content(heap, handles.loaded).rows)
            > Len(LoadedContent(memory, heap, "t").rows)
    /\ LoadedContent(memory, heap, "t") = last_saved["t"]

\* What load_table(n) returns on the backend in use: [found, data]
LoadedFrom(n) ==
    IF backend = "memory"
    THEN [found |-> MemoryStorage_load_table(memory, heap, n).found,
          data |-> IF n \in DOMAIN memory.tables
                   THEN LoadedContent(memory, heap, n) ELSE << >>]
    ELSE load_table(database.storage, n)

\* C17: on every backend and format (json, pickle, memory), after any
\* sequence of save_table and delete_table calls, load_table(n) returns
\* content equal to what the most recent save_table(n, ...) was given when
\* n has not been deleted since, and nothing otherwise.
C17_LoadReturnsLastSave ==
    \A n \in TableNames :
        IF n \in DOMAIN last_saved
        THEN /\ LoadedFrom(n).found
             /\ LoadedFrom(n).data = last_saved[n]
        ELSE ~LoadedFrom(n).found

\* On the json backend u was saved with rows and then t was deleted: u
\* loads as saved, t does not load
C17_Witness ==
    /\ backend = "json"
    /\ returned = [call |-> "delete_table", table_name |-> "t", ret |-> TRUE]
    /\ "u" \in DOMAIN last_saved
    /\ Len(last_saved["u"].rows) = MaxRows
    /\ load_table(database.storage, "u").data = last_saved["u"]
    /\ ~load_table(database.storage, "t").found

----------------------------------------------------------------------------
(* Claims about serialization and deletion of a Table *)

\* Every index of t maps each value held in its column, and no other, to
\* the positions holding it, each once
IndexesExact(t) ==
    \A c \in DOMAIN t.indexes :
        /\ DOMAIN t.indexes[c]
                = {t.rows[i][c] : i \in {p \in Positions(t) :
                                            t.rows[p][c].t # "null"}}
        /\ \A v \in DOMAIN t.indexes[c] :
              /\ Range(t.indexes[c][v])
                    = {i \in Positions(t) : t.rows[i][c] = v}
              /\ Len(t.indexes[c][v])
                    = Cardinality({i \in Positions(t) : t.rows[i][c] = v})

\* C18: for every table state reached by successful insert, update and
\* delete calls, Table.from_dict(table.to_dict()) has the same column
\* order, the same rows in the same order, the same primary key, the same
\* set of unique columns, and indexes that map each held value to exactly
\* the positions holding it.
C18_FromDictOfToDictIsTheTable ==
    last.clean =>
        LET copy == from_dict(to_dict(table))
        IN /\ copy.column_order = table.column_order
           /\ copy.rows = table.rows
           /\ copy.primary_key = table.primary_key
           /\ copy.unique_columns = table.unique_columns
           /\ DOMAIN copy.indexes = table.unique_columns
           /\ IndexesExact(copy)

\* After successful calls only, the last a delete that removed a row, the
\* table holds a row whose email is set
C18_Witness ==
    /\ last.clean
    /\ last.op = "delete"
    /\ last.count = 1
    /\ Len(table.rows) = 1
    /\ table.rows[1]["id"] = IntV(2)
    /\ table.rows[1]["email"] # NullV

\* C19: in every reachable table state, states after a failed call
\* included, a delete whose filter matches no row returns 0 and leaves
\* the rows, their order and every index as they were.
C19_DeleteOfNothingChangesNothing ==
    [][(last'.op = "delete" /\ last'.matched = 0) =>
            /\ last'.ok
            /\ last'.count = 0
            /\ table'.rows = table.rows
            /\ table'.indexes = table.indexes]_vars

\* A new table with the rows of R inserted in order
RECURSIVE FreshWith(_, _, _)
FreshWith(t, R, k) ==
    IF k > Len(R) THEN t
    ELSE FreshWith(insert(t, R[k]).table, R, k + 1)

\* C20: for every sequence R of rows inserted successfully into an empty
\* table, deleting all rows and then inserting R again in the same order
\* succeeds and gives the indexes (and rows) of a new table into which R
\* was inserted.
C20_RefilledTableEqualsFreshTable ==
    (last.phase = "refill" /\ last.reinserted = Len(last.inserted)) =>
        LET fresh == FreshWith(Table("users", UsersColumns,
                                     table.index_order),
                               last.inserted, 1)
        IN /\ last.ok
           /\ table.indexes = fresh.indexes
           /\ table.rows = fresh.rows
           /\ Len(table.rows) = Len(last.inserted)

\* MaxRows rows were inserted, deleted and inserted again; the index of
\* id holds each of them
C20_Witness ==
    /\ last.phase = "refill"
    /\ Len(last.inserted) = MaxRows
    /\ last.reinserted = MaxRows
    /\ Cardinality(DOMAIN table.indexes["id"]) = MaxRows
    /\ DOMAIN table.indexes["email"] # {}

----------------------------------------------------------------------------
(* Claims about Table.update and Table.delete *)

\* The positions of the rows of t that satisfy the filter
MatchingPositions(t, where_clause) ==
    {i \in DOMAIN t.rows :
        \A k \in DOMAIN where_clause :
            /\ where_clause[k][1] \in ColumnNames(t)
            /\ Get(t.rows[i], where_clause[k][1]) = where_clause[k][2]}

\* The row a column-by-column validation makes of the old values overlaid
\* with the assignments
ValidatedMerge(t, row, set_values) ==
    [c \in ColumnNames(t) |->
        LET column == t.columns[CHOOSE k \in DOMAIN t.columns :
                                    t.columns[k].name = c]
        IN validate_value(column,
               IF c \in DOMAIN set_values THEN set_values[c]
               ELSE Get(row, c)).val]

\* C21: a successful update changes exactly the rows that matched before the
\* call: each keeps its position and holds the validated merge of its old
\* values with the assignments, every other row is unchanged, the number of
\* rows is unchanged, and the returned count is the number of matching rows
C21_UpdateChangesExactlyTheMatchingRows ==
    [][(last'.op = "update" /\ last'.ok) =>
        LET matching == MatchingPositions(table, last'.where_clause)
        IN /\ Len(table'.rows) = Len(table.rows)
           /\ \A i \in DOMAIN table.rows :
                 table'.rows[i] =
                    IF i \in matching
                    THEN ValidatedMerge(table, table.rows[i],
                                        last'.set_values)
                    ELSE table.rows[i]
           /\ last'.count = Cardinality(matching)]_vars

\* An update with a filter has changed one of two rows and left the other
C21_Witness ==
    /\ last.op = "update" /\ last.ok /\ last.count = 1
    /\ last.where_clause # None_where
    /\ Len(table.rows) = 2
    /\ \E i \in DOMAIN table.rows :
          /\ i \in MatchingPositions(table, last.where_clause)
          /\ table.rows[i]["email"] = StrV("1")
          /\ last.set_values = [c \in {"email"} |-> IntV(1)]

C27_FailedUpdateChangesNothing ==
    [][(last'.op = "update" /\ ~last'.ok) => table' = table]_vars

----------------------------------------------------------------------------
(* Claims about statements that name a table *)

\* A Database opened on the storage of db, directly or after close()
Reopened(db) == {Database(db.storage), Database(close(db, TRUE).storage)}

NamingStatements ==
    {"INSERT INTO", "SELECT", "UPDATE", "DELETE FROM", "DROP TABLE",
     "DESCRIBE"}

NamedTables(query) ==
    {query.table_name} \cup
        (IF query.join_table = "" THEN {} ELSE {query.join_table})

\* C24: INSERT, SELECT (a join included), UPDATE, DELETE, DROP TABLE and
\* DESCRIBE on a name that is not live return a failure saying that the
\* table does not exist, create no table and leave the live tables and the
\* storage as they were
C24_UnknownTableIsReportedAndNothingChanges ==
    [][(/\ ~answer'.reopened
        /\ answer'.query.query_type \in NamingStatements
        /\ \E n \in NamedTables(answer'.query) :
              n \notin DOMAIN database.tables) =>
        /\ ~answer'.r.success
        /\ \E n \in NamedTables(answer'.query) \ DOMAIN database.tables :
              answer'.r.error = <<"Table does not exist", n>>
        /\ database' = database]_vars

\* A join of the live table t with u, which does not exist, was refused
C24_Witness ==
    /\ answer.query.query_type = "SELECT"
    /\ answer.query.table_name = "t"
    /\ answer.query.join_table = "u"
    /\ ~answer.r.success
    /\ "t" \in DOMAIN database.tables
    /\ Len(database.tables["t"].rows) > 0

\* C25: CREATE TABLE with the name of a live table fails and leaves the
\* table's schema, rows and indexes and its stored form as they were
C25_CreateOfLiveTableChangesNothing ==
    [][(/\ ~answer'.reopened
        /\ answer'.query.query_type = "CREATE TABLE"
        /\ answer'.query.table_name \in DOMAIN database.tables) =>
        /\ ~answer'.r.success
        /\ answer'.r.error =
              <<"Table already exists", answer'.query.table_name>>
        /\ database' = database]_vars

\* CREATE TABLE t was refused while t held a row
C25_Witness ==
    /\ answer.query.query_type = "CREATE TABLE"
    /\ answer.r.error = <<"Table already exists", "t">>
    /\ Len(database.tables["t"].rows) > 0
    /\ database.storage.metadata.tables["t"].row_count > 0

\* The column of t declared at position i
ColumnAt(t, i) == t.columns[i]

\* C26: an INSERT without column list succeeds only with every supplied
\* value stored, after coercion, in the column of its position
C26_EverySuppliedValueIsStored ==
    [][(/\ ~answer'.reopened
        /\ answer'.query.query_type = "INSERT INTO"
        /\ answer'.r.success) =>
        LET n == answer'.query.table_name
            before == database.tables[n]
            after == database'.tables[n]
        IN \A k \in DOMAIN answer'.query.values :
              LET tuple == answer'.query.values[k]
              IN tuple.values_only =>
                    \A i \in DOMAIN tuple.list :
                       /\ i <= Len(before.column_order)
                       /\ after.rows[Len(before.rows) + k]
                                    [before.column_order[i]]
                             = validate_value(ColumnAt(before, i),
                                              tuple.list[i]).val]_vars

\* C28: after every execute_query call, for every live table the rows the
\* storage would load are the live rows in order and the stored row_count
\* is the live row count
C28_StorageFollowsTheLiveTables ==
    \A n \in DOMAIN database.tables :
        /\ load_table(database.storage, n).found
        /\ load_table(database.storage, n).data.rows
              = database.tables[n].rows
        /\ database.storage.metadata.tables[n].row_count
              = Len(database.tables[n].rows)

----------------------------------------------------------------------------
(* Claims about the WHERE clause of UPDATE and DELETE *)

\* The conditions written in a WHERE text: column, operator, literal
WrittenConditions(where_str) ==
    {<<where_str[k - 1].text, where_str[k].text,
       IF where_str[k + 1].kind = "int" THEN IntV(where_str[k + 1].n)
       ELSE StrV(where_str[k + 1].inner)>> :
        k \in {j \in DOMAIN where_str : where_str[j].kind = "op"}}

\* Whether a row satisfies a written condition
SatisfiesWritten(row, condition) ==
    LET value == Get(row, condition[1])
    IN IF condition[2] = "="
       THEN value = condition[3]
       ELSE value.t = "int" /\ condition[3].t = "int"
            /\ value.n > condition[3].n

\* C29: an UPDATE or DELETE whose text has a WHERE clause changes or removes
\* no row that does not satisfy every condition written in the clause
C29_OnlyRowsSatisfyingTheWhereAreTouched ==
    [][(/\ parsed'.done
        /\ select_text' # <<>>
        /\ "t" \in DOMAIN database.tables
        /\ "t" \in DOMAIN database'.tables) =>
        LET before == database.tables["t"].rows
            after == database'.tables["t"].rows
            touched(i) ==
                IF answer'.query.query_type = "UPDATE"
                THEN after[i] # before[i]
                ELSE \A j \in DOMAIN after : after[j] # before[i]
        IN \A i \in DOMAIN before :
              touched(i) =>
                 \A condition \in WrittenConditions(select_text') :
                     SatisfiesWritten(before[i], condition)]_vars

----------------------------------------------------------------------------
(* Claims about the rows of a two-table SELECT * *)

\* The pairs the nested loops keep, in left-major order
KeptPairs(db, q) ==
    SelectSeq(Pairs(db.tables[q.table_name].rows,
                    db.tables[q.join_table].rows),
              LAMBDA pair :
                  _evaluate_join_condition(pair.a, pair.b, q.join_condition))

\* C30: every row of a two-table SELECT * stands for a kept pair (a, b) and
\* has exactly the keys A.c, for each column c of the left table A, holding
\* a's value, and B.d, for each column d of the right table B, holding b's
\* value; for every pair of table names, a table joined with itself included
C30_JoinedRowHoldsBothRows ==
    (/\ answer.query.query_type = "SELECT"
     /\ answer.query.join_table # ""
     /\ answer.query.columns = AllJoined
     /\ answer.r.success) =>
        LET A == database.tables[answer.query.table_name]
            B == database.tables[answer.query.join_table]
            kept == KeptPairs(database, answer.query)
            rows == answer.r.data.rows
        IN /\ Len(rows) = Len(kept)
           /\ \A k \in DOMAIN rows :
                 /\ DOMAIN rows[k] =
                       {<<A.name, c>> : c \in Range(A.column_order)}
                          \cup {<<B.name, d>> : d \in Range(B.column_order)}
                 /\ \A c \in Range(A.column_order) :
                       rows[k][<<A.name, c>>] = kept[k].a[c]
                 /\ \A d \in Range(B.column_order) :
                       rows[k][<<B.name, d>>] = kept[k].b[d]

----------------------------------------------------------------------------
(* Claims about the WHERE filter of a two-table SELECT *)

\* Whether the condition k = v keeps a combined row: k is a key holding v,
\* or k is no key and some key with the suffix k holds v
KeepsCombined(row, k, v) ==
    \/ k \in DOMAIN row /\ row[k] = v
    \/ /\ k \notin DOMAIN row
       /\ \E full_col \in DOMAIN row :
             k[1] = "" /\ full_col[2] = k[2] /\ row[full_col] = v

\* C31: a two-table SELECT with a WHERE filter returns exactly the combined
\* rows of the kept pairs that every condition of the filter keeps
C31_JoinedWhereKeepsRowsWithSomeMatchingKey ==
    (/\ answer.query.query_type = "SELECT"
     /\ answer.query.join_table # ""
     /\ answer.query.where_clause # None_where
     /\ answer.r.success) =>
        LET q == answer.query
            kept == KeptPairs(database, q)
            combined == [i \in DOMAIN kept |->
                            combined_row(q.table_name, kept[i].a,
                                         q.join_table, kept[i].b)]
            keeps(row) ==
                \A j \in DOMAIN q.where_clause :
                    KeepsCombined(row, q.where_clause[j][1],
                                  q.where_clause[j][2])
        IN answer.r.data.rows = SelectSeq(combined, keeps)

----------------------------------------------------------------------------
(* Claims about updates of unique columns *)

\* The update assigns to the unique column c of the one row it matches, at
\* position i, the value that row holds, which no other row holds
AssignsOwnValue(t, set_values, where_clause, c, i) ==
    /\ DOMAIN set_values = {c}
    /\ c \in t.unique_columns
    /\ MatchingPositions(t, where_clause) = {i}
    /\ ValidatedMerge(t, t.rows[i], set_values) = t.rows[i]
    /\ t.rows[i][c] # NullV
    /\ \A j \in DOMAIN t.rows : j # i => t.rows[j][c] # t.rows[i][c]

\* A table that keeps its constraints: no value of a unique column is held
\* twice, and the indexes agree with the rows
Consistent(t) ==
    /\ IndexesExact(t)
    /\ \A c \in t.unique_columns, i \in DOMAIN t.rows, j \in DOMAIN t.rows :
          (i # j /\ t.rows[i][c] # NullV) => t.rows[i][c] # t.rows[j][c]

----------------------------------------------------------------------------
(* Claims about literals in INSERT and WHERE *)

\* C33: a SELECT that follows a successful INSERT on the same table and
\* filters a column by the literal the INSERT supplied for it returns the
\* inserted row
C33_InsertedRowIsFoundByItsLiteral ==
    [][(/\ answer.query.query_type = "INSERT INTO"
        /\ answer.r.success
        /\ ~answer'.reopened
        /\ answer'.query.query_type = "SELECT"
        /\ answer'.query.table_name = answer.query.table_name
        /\ LET t == database.tables[answer.query.table_name]
               supplied == answer.query.values[1].list
           IN \E i \in DOMAIN supplied :
                 answer'.query.where_clause
                    = << <<t.column_order[i], supplied[i]>> >>) =>
        LET t == database.tables[answer.query.table_name]
        IN /\ answer'.r.success
           /\ \E k \in DOMAIN answer'.r.data.rows :
                 answer'.r.data.rows[k] = t.rows[Len(t.rows)]]_vars

----------------------------------------------------------------------------
(* Claims about the table_data a caller handed to MemoryStorage *)

\* C34: the content a MemoryStorage holds for a table changes only through
\* save_table and delete_table: a step in which the caller changes the
\* dict it saved, or an object nested in it, leaves the tables held and
\* what load_table returns for each as they were
C34_SavedContentIsTheStoragesOwn ==
    [][returned'.call \notin {"save_table", "delete_table"} =>
        /\ DOMAIN memory'.tables = DOMAIN memory.tables
        /\ \A n \in DOMAIN memory.tables :
              LoadedContent(memory', heap', n)
                  = LoadedContent(memory, heap, n)]_vars

----------------------------------------------------------------------------
(* Claims about readers of the storage metadata *)

\* C35: a get_database_stats or list_tables call that runs while other
\* threads save and delete tables sees a table_count equal to the number
\* of entries of the per-table metadata map
C35_ReaderSeesCountOfEntries ==
    \A th \in ReaderIds :
        threads[th].pc = "done" =>
            threads[th].table_count = threads[th].entries

----------------------------------------------------------------------------
(* Claims about compact_database *)

\* C36: no step of compact_database changes what the storage holds,
\* whatever save_table and delete_table calls of the caller come between
\* its steps: the tables listed and the content load_table returns for
\* each stay as they were
C36_CompactionKeepsWhatTheStorageHolds ==
    [][threads' # threads =>
        Holds(database'.storage) = Holds(database.storage)]_vars

----------------------------------------------------------------------------
(* Claims about the return of storage calls *)

\* C37: under fair scheduling every save_table, load_table, delete_table,
\* compact_database and close call eventually returns, whatever calls the
\* other threads make and whether or not a call raises inside
C37_EveryCallReturns ==
    \A th \in ThreadIds : <>(threads[th].pc = "done")

\* A compact_database call and a save_table call that raised under the
\* lock have both returned, and the lock is free
C37_Witness ==
    /\ threads[1].call = "compact_database"
    /\ threads[1].pc = "done"
    /\ threads[1].ret
    /\ threads[2].call = "save_table"
    /\ threads[2].pc = "done"
    /\ ~threads[2].ret
    /\ lock = 0

----------------------------------------------------------------------------
(* Claims about the rows a table holds *)

\* The kind of value a column of the given type holds
KindOf(data_type) ==
    CASE data_type = "INT" -> "int"
      [] data_type \in {"TEXT", "VARCHAR"} -> "str"
      [] OTHER -> "bool"

\* C38: in every state reached by insert, update and delete calls, every
\* row has exactly the declared columns as keys, each holding None or a
\* value of the column's declared type, and None only in a column that is
\* declared nullable and is no primary key
C38_RowsFollowTheSchema ==
    \A i \in DOMAIN table.rows :
        /\ DOMAIN table.rows[i] = {table.columns[k].name :
                                        k \in DOMAIN table.columns}
        /\ \A k \in DOMAIN table.columns :
              LET column == table.columns[k]
                  value == table.rows[i][column.name]
              IN IF value = NullV
                 THEN ~column.primary_key /\ column.nullable
                 ELSE value.t = KindOf(column.data_type)

\* An update gave the first of two rows a tag: the row was inserted with
\* the numeral '1' as id and without a tag, and holds the int 1, the text
\* 'True' and a bool
C38_Witness ==
    /\ last.op = "update"
    /\ last.ok
    /\ last.set_values = [c \in {"tag"} |-> BoolV(TRUE)]
    /\ Len(table.rows) = 2
    /\ table.rows[1] = [c \in {"id", "tag", "ok"} |->
                            IF c = "id" THEN IntV(1)
                            ELSE IF c = "tag" THEN StrV("True")
                            ELSE BoolV(FALSE)]
    /\ table.rows[2]["tag"] = NullV

----------------------------------------------------------------------------
(* Claims about concurrent callers of one Database *)

RowsWithKey(t, key) ==
    {p \in DOMAIN t.rows : t.rows[p]["id"] = IntV(key)}

\* C13: threads that INSERT the same primary-key value into the same table
\* without serialization by the caller can both succeed.  No thread holds
\* the storage lock while it is inside Table.insert, and a thread whose
\* row passed validation goes on to store it and to report success: when
\* all threads passed validation with one key (each before another's
\* index update), all report success and the table holds one row with
\* that key per thread.
C13_UnserializedInsertsBothSucceed ==
    /\ \A th \in DOMAIN threads :
            threads[th].pc \in {"validate", "len", "append", "index"}
                => lock # th
    /\ /\ threads # << >>
       /\ \A th \in DOMAIN threads :
            /\ threads[th].pc = "done"
            /\ threads[th].validated
            /\ threads[th].key = threads[1].key
       => /\ \A th \in DOMAIN threads : threads[th].success
          /\ Cardinality(RowsWithKey(database.tables["t"], threads[1].key))
                >= Len(threads)
          /\ Cardinality(RowsWithKey(
                    load_table(database.storage, "t").data, threads[1].key))
                >= Len(threads)

\* Two INSERTs of one key have both answered success, and the table holds
\* two rows with that key, in memory and on disk
C13_Witness ==
    /\ Len(threads) >= 2
    /\ threads[1].key = threads[2].key
    /\ threads[1].pc = "done" /\ threads[1].success
    /\ threads[2].pc = "done" /\ threads[2].success
    /\ Cardinality(RowsWithKey(database.tables["t"], threads[1].key)) >= 2
    /\ Cardinality(RowsWithKey(load_table(database.storage, "t").data,
                               threads[1].key)) >= 2

====
